---- MODULE Spec2Model ----
(***************************************************************************)
(* The surface commit pipeline of the compositor (src/ifs/wl_surface.rs):   *)
(* the pending-state accumulator, PendingState::merge, the recursive        *)
(* WlSurface::apply_state, the explicit-sync validation, surface            *)
(* destruction and the release protocol of SurfaceBuffer.                   *)
(*                                                                          *)
(* Option<T> is the record [set, val]; the null protocol object and "no     *)
(* sync point" are the id 0.  Fixed (24.8 fixed point) is its raw integer.  *)
(***************************************************************************)
EXTENDS Integers, Sequences, FiniteSets, TLC

\* ------------------------------------------------------------------ bounds
MaxCommits == 3      \* commit requests issued in one behaviour
MaxResvUsers == 1    \* renderers that may leave a release fence on a buffer
MaxObjects == 3      \* wl_callback and feedback objects the client creates

Surf == {1, 2, 3}            \* wl_surface ids
Buffers == {1, 2}            \* wl_buffer ids (0 is the null buffer)
ReleasePoints == {1, 2}      \* release timeline points (0 is "no point")
AcquirePoints == {1}         \* acquire timeline points (0 is "no point")
ResvUsers == 1..MaxResvUsers

\* F applied to the value of v, which is computed once.
Let(v, F(_)) == CHOOSE y \in {F(x) : x \in {v}} : TRUE

\* ------------------------------------------------------------------ Option
None_(d) == [set |-> FALSE, val |-> d]
Some_(v) == [set |-> TRUE, val |-> v]
EmptyMap == [x \in {} |-> 0]

\* wl_buffer objects: which are dma-bufs and their pixel size are fixed at
\* creation; `destroyed` is set by the client's wl_buffer.destroy.
BufferIsDmabuf(b) == b = 1
BufferSize(b) == IF b = 1 THEN <<4, 2>> ELSE <<2, 2>>

\* ------------------------------------------------------------ PendingState
DefaultPendingState ==
    [buffer |-> None_(0),
     offset |-> <<0, 0>>,
     opaque_region |-> None_(0),
     input_region |-> None_(0),
     frame_request |-> <<>>,
     damage |-> FALSE,
     presentation_feedback |-> <<>>,
     src_rect |-> None_(None_(<<0, 0, 0, 0>>)),
     dst_size |-> None_(None_(<<0, 0>>)),
     scale |-> None_(0),
     transform |-> None_("None"),
     xwayland_serial |-> None_(0),
     tearing |-> None_(FALSE),
     content_type |-> None_(0),
     subsurfaces |-> EmptyMap,
     acquire_point |-> 0,
     release_point |-> 0,
     explicit_sync |-> FALSE,
     commits |-> <<>>]   \* history: the numbers of the commit requests folded in

\* ----------------------------------------------------------- SurfaceBuffer
\* buffer = 0 stands for "no committed buffer" (Option::None).
NoSurfaceBuffer ==
    [buffer |-> 0, sync_files |-> {}, sync |-> "Implicit",
     release_sync |-> "Implicit", release |-> 0]

\* impl Drop for SurfaceBuffer: what one drop does.  `ctx` is whether
\* state.render_ctx is set, `import_ok` the result of import_sync_files,
\* `destroyed` is buffer.destroyed().
DropNoCtxSignals(sb, ctx, import_ok, destroyed) ==
    LET files == sb.sync_files # {} IN
    [buffer |-> sb.buffer, release |-> sb.release, files |-> files,
     ctx |-> ctx, destroyed |-> destroyed,
     import_tried |-> sb.release # 0 /\ files,
     point_imported |-> sb.release # 0 /\ files /\ import_ok,
     point_signalled |-> sb.release # 0 /\ ~(files /\ import_ok),
     dmabuf_imports |-> IF sb.release = 0 /\ BufferIsDmabuf(sb.buffer)
                        THEN Cardinality(sb.sync_files) ELSE 0,
     released |-> sb.release = 0 /\ ~destroyed]

DropAlwaysReleases(sb, ctx, import_ok, destroyed) ==
    LET files == sb.sync_files # {} IN
    [buffer |-> sb.buffer, release |-> sb.release, files |-> files,
     ctx |-> ctx, destroyed |-> destroyed,
     import_tried |-> sb.release # 0 /\ ctx /\ files,
     point_imported |-> sb.release # 0 /\ ctx /\ files /\ import_ok,
     point_signalled |-> sb.release # 0 /\ ctx /\ ~(files /\ import_ok),
     dmabuf_imports |-> IF BufferIsDmabuf(sb.buffer)
                        THEN Cardinality(sb.sync_files) ELSE 0,
     released |-> ~destroyed]

DropSurfaceBuffer(sb, ctx, import_ok, destroyed) ==
    LET files == sb.sync_files # {} IN
    IF sb.release # 0
    THEN \* explicit release point
         [buffer |-> sb.buffer, release |-> sb.release, files |-> files,
          ctx |-> ctx, destroyed |-> destroyed,
          import_tried |-> ctx /\ files,
          point_imported |-> ctx /\ files /\ import_ok,
          point_signalled |-> ctx /\ ~(files /\ import_ok),
          dmabuf_imports |-> 0,
          released |-> FALSE]
    ELSE [buffer |-> sb.buffer, release |-> 0, files |-> files,
          ctx |-> ctx, destroyed |-> destroyed,
          import_tried |-> FALSE,
          point_imported |-> FALSE,
          point_signalled |-> FALSE,
          dmabuf_imports |-> IF BufferIsDmabuf(sb.buffer)
                             THEN Cardinality(sb.sync_files) ELSE 0,
          released |-> ~destroyed]

\* --------------------------------------------------- verify_explicit_sync
\* The result of the match on (release set, acquire set, have_new_buffer).
VerifyAcceptsMissing(has_sync_obj, pending) ==
    LET have_new_buffer == pending.buffer.set /\ pending.buffer.val # 0 IN
    IF ~has_sync_obj THEN "Ok"
    ELSE IF have_new_buffer THEN "Ok"
    ELSE IF pending.release_point = 0 /\ pending.acquire_point = 0 THEN "Ok"
    ELSE "UnexpectedSyncPoints"

verify_explicit_sync(has_sync_obj, pending) ==
    LET have_new_buffer == pending.buffer.set /\ pending.buffer.val # 0 IN
    IF ~has_sync_obj THEN "Ok"
    ELSE IF pending.release_point # 0 /\ pending.acquire_point # 0 /\ have_new_buffer
         THEN "Ok"
    ELSE IF pending.release_point = 0 /\ pending.acquire_point = 0 /\ ~have_new_buffer
         THEN "Ok"
    ELSE IF have_new_buffer THEN "MissingSyncPoints"
    ELSE "UnexpectedSyncPoints"
\* ------------------------------------------------------ PendingState::merge
\* State::signal_point: signals a release point of a delta that is discarded
\* before it is applied.
signal_point(point) == point

\* The "discard state" part of merge for the buffer: the older delta's buffer
\* is about to be overwritten.  Returns the older delta's buffer and release
\* point after the discard and what was sent: `signalled` is the point that
\* was signalled (0: none), `released` the buffer that got the release event
\* (0: none).
MergeDiscardAlways(self, next, destroyed) ==
    IF ~next.buffer.set
    THEN [buffer |-> self.buffer, release_point |-> self.release_point,
          discarded |-> 0, had_point |-> FALSE, signalled |-> 0,
          released |-> 0, was_destroyed |-> FALSE]
    ELSE IF self.release_point # 0
    THEN [buffer |-> self.buffer, release_point |-> 0,
          discarded |-> self.buffer.val, had_point |-> TRUE,
          signalled |-> signal_point(self.release_point),
          released |-> 0,
          was_destroyed |-> self.buffer.val \in destroyed]
    ELSE [buffer |-> None_(0), release_point |-> 0,
          discarded |-> self.buffer.val, had_point |-> FALSE,
          signalled |-> 0,
          released |-> self.buffer.val,
          was_destroyed |-> self.buffer.val \in destroyed]

MergeDiscardNever(self, next, destroyed) ==
    [buffer |-> self.buffer, release_point |-> self.release_point,
     discarded |-> IF next.buffer.set THEN self.buffer.val ELSE 0,
     had_point |-> next.buffer.set /\ self.release_point # 0,
     signalled |-> 0, released |-> 0,
     was_destroyed |-> next.buffer.set /\ self.buffer.val \in destroyed]

MergeDiscard(self, next, destroyed) ==
    IF ~next.buffer.set
    THEN [buffer |-> self.buffer, release_point |-> self.release_point,
          discarded |-> 0, had_point |-> FALSE, signalled |-> 0,
          released |-> 0, was_destroyed |-> FALSE]
    ELSE IF self.release_point # 0
    THEN [buffer |-> self.buffer, release_point |-> 0,
          discarded |-> self.buffer.val, had_point |-> TRUE,
          signalled |-> signal_point(self.release_point),
          released |-> 0,
          was_destroyed |-> self.buffer.val \in destroyed]
    ELSE [buffer |-> None_(0), release_point |-> 0,
          discarded |-> self.buffer.val, had_point |-> FALSE,
          signalled |-> 0,
          released |-> IF self.buffer.val \in destroyed THEN 0
                       ELSE self.buffer.val,
          was_destroyed |-> self.buffer.val \in destroyed]

\* macro opt!: the newer value if the newer delta set the field.
MergeOptKeepOld(old, new) == IF old.set THEN old ELSE new

MergeOpt(old, new) == IF new.set THEN new ELSE old

\* opt! on the sync points, which are Option<(SyncObj, point)>.
MergePoint(old, new) == IF new # 0 THEN new ELSE old

\* component-wise sum of the offsets
MergeOffsetLast(o1, o2) == o2

MergeOffset(o1, o2) == <<o1[1] + o2[1], o1[2] + o2[2]>>

\* only the newer delta's frame requests are kept
MergeFrameRequestNewer(older, newer) == newer

\* Line 428: self.frame_request.append(&mut next.frame_request)
MergeFrameRequest(older, newer) == older \o newer

\* the older delta's feedbacks are kept in front of the newer's
MergeFeedbackConcat(older, newer) ==
    [list |-> older \o newer, discarded |-> <<>>]

\* Lines 397-400 and 430-433: the older delta's presentation feedbacks are
\* drained and sent `discarded`; the emptied list is swapped with the
\* newer delta's.
MergeFeedback(older, newer) == [list |-> newer, discarded |-> older]

\* The own fields of the merged delta (everything except the nested child
\* deltas).  `d` is the result of MergeDiscard.
MergeFields(self, next, d) ==
    [self EXCEPT
        !.buffer = MergeOpt(d.buffer, next.buffer),
        !.opaque_region = MergeOpt(self.opaque_region, next.opaque_region),
        !.input_region = MergeOpt(self.input_region, next.input_region),
        !.src_rect = MergeOpt(self.src_rect, next.src_rect),
        !.dst_size = MergeOpt(self.dst_size, next.dst_size),
        !.scale = MergeOpt(self.scale, next.scale),
        !.transform = MergeOpt(self.transform, next.transform),
        !.xwayland_serial = MergeOpt(self.xwayland_serial, next.xwayland_serial),
        !.tearing = MergeOpt(self.tearing, next.tearing),
        !.content_type = MergeOpt(self.content_type, next.content_type),
        !.acquire_point = MergePoint(self.acquire_point, next.acquire_point),
        !.release_point = MergePoint(d.release_point, next.release_point),
        !.offset = MergeOffset(self.offset, next.offset),
        !.frame_request = MergeFrameRequest(self.frame_request, next.frame_request),
        !.damage = self.damage \/ next.damage,
        !.presentation_feedback =
            MergeFeedback(self.presentation_feedback,
                          next.presentation_feedback).list,
        !.commits = self.commits \o next.commits]

\* One discard note per merged pair of deltas that overwrote a buffer slot.
DiscardNotes(d) ==
    IF d.discarded # 0 \/ d.signalled # 0 \/ d.released # 0 THEN <<d>> ELSE <<>>

RECURSIVE merge(_, _, _)
RECURSIVE MergeSubsurfaces(_, _, _, _)

\* for (id, state) in next.subsurfaces.drain(): merge into the occupied
\* entry or insert into the vacant one.
MergeSubsurfaces(subs, nextSubs, ids, destroyed) ==
    IF ids = {} THEN [subs |-> subs, notes |-> <<>>, fb |-> <<>>]
    ELSE LET id == CHOOSE i \in ids : \A j \in ids : i <= j
             one == IF id \in DOMAIN subs
                    THEN merge(subs[id], nextSubs[id], destroyed)
                    ELSE [state |-> nextSubs[id], notes |-> <<>>, fb |-> <<>>]
             subs1 == [i \in DOMAIN subs \cup {id} |->
                          IF i = id THEN one.state ELSE subs[i]]
             rest == MergeSubsurfaces(subs1, nextSubs, ids \ {id}, destroyed)
         IN [subs |-> rest.subs, notes |-> one.notes \o rest.notes,
             fb |-> one.fb \o rest.fb]

\* PendingState::merge(self, next): the merged delta, the notes of the buffer
\* discards and the presentation feedbacks that were sent `discarded`.
merge(self, next, destroyed) ==
    LET d == MergeDiscard(self, next, destroyed)
        own == MergeFields(self, next, d)
        subs == MergeSubsurfaces(self.subsurfaces, next.subsurfaces,
                                 DOMAIN next.subsurfaces, destroyed)
    IN [state |-> [own EXCEPT !.subsurfaces = subs.subs],
        notes |-> DiscardNotes(d) \o subs.notes,
        fb |-> MergeFeedback(self.presentation_feedback,
                             next.presentation_feedback).discarded \o subs.fb]

\* What merge leaves in `next`: every field is taken except explicit_sync.
MergeRest(next) == [DefaultPendingState EXCEPT !.explicit_sync = next.explicit_sync]
\* ------------------------------------------------------------ Rect, Fixed
Rect(x1, y1, x2, y2) == [x1 |-> x1, y1 |-> y1, x2 |-> x2, y2 |-> y2]
RectWidth(r) == r.x2 - r.x1
RectHeight(r) == r.y2 - r.y1
RectSize(r) == <<RectWidth(r), RectHeight(r)>>
RectAtPoint(r, x, y) == Rect(x, y, x + RectWidth(r), y + RectHeight(r))
RectWithSize(r, w, h) == Rect(r.x1, r.y1, r.x1 + w, r.y1 + h)
RectIsEmpty(r) == r.x1 = r.x2 \/ r.y1 = r.y2
RectMove(r, dx, dy) == Rect(r.x1 + dx, r.y1 + dy, r.x2 + dx, r.y2 + dy)
Min(a, b) == IF a <= b THEN a ELSE b
Max(a, b) == IF a >= b THEN a ELSE b
RectUnion(a, b) ==
    Rect(Min(a.x1, b.x1), Min(a.y1, b.y1), Max(a.x2, b.x2), Max(a.y2, b.y2))

FixedOne == 256
FixedIsInteger(f) == f % FixedOne = 0
FixedToInt(f) == f \div FixedOne

\* Transform::maybe_swap: width and height change places for the four
\* transforms that rotate by 90 or 270 degrees.
Transforms ==
    {"None", "Rotate90", "Rotate180", "Rotate270",
     "Flip", "FlipRotate90", "FlipRotate180", "FlipRotate270"}
maybe_swap(t, size) ==
    IF t \in {"Rotate90", "Rotate270", "FlipRotate90", "FlipRotate270"}
    THEN <<size[2], size[1]>> ELSE size

\* ---------------------------------------------------------------- WlSurface
\* WlSurface::new.  `children` is Option<ParentData>: the set of the ids of
\* the child subsurfaces.
NewSurface(version) ==
    [role |-> "None",
     ext |-> "None",
     pending |-> DefaultPendingState,
     input_region |-> 0,
     opaque_region |-> 0,
     buffer_points |-> [x1 |-> 0, y1 |-> 0, x2 |-> 0, y2 |-> 0],
     buffer_points_norm |-> [x1 |-> <<0, 1>>, y1 |-> <<0, 1>>,
                             x2 |-> <<0, 1>>, y2 |-> <<0, 1>>,
                             buffer_transform |-> "None"],
     buffer_transform |-> "None",
     buffer_scale |-> 1,
     src_rect |-> None_(<<0, 0, 0, 0>>),
     dst_size |-> None_(<<0, 0>>),
     extents |-> Rect(0, 0, 0, 0),
     buffer_abs_pos |-> Rect(0, 0, 0, 0),
     need_extents_update |-> FALSE,
     buffer |-> NoSurfaceBuffer,
     buf_x |-> 0,
     buf_y |-> 0,
     children |-> None_({}),
     frame_requests |-> <<>>,
     presentation_feedback |-> <<>>,
     xwayland_serial |-> None_(0),
     tearing |-> FALSE,
     content_type |-> 0,
     version |-> version,
     sync_obj_surface |-> FALSE,
     destroyed |-> FALSE]

\* The committed fields of a surface that a commit may change.
Committed(sf) ==
    [buffer |-> sf.buffer, buf_x |-> sf.buf_x, buf_y |-> sf.buf_y,
     buffer_scale |-> sf.buffer_scale, buffer_transform |-> sf.buffer_transform,
     src_rect |-> sf.src_rect, dst_size |-> sf.dst_size,
     size |-> RectSize(sf.buffer_abs_pos),
     frame_requests |-> sf.frame_requests,
     presentation_feedback |-> sf.presentation_feedback,
     input_region |-> sf.input_region, opaque_region |-> sf.opaque_region,
     tearing |-> sf.tearing, content_type |-> sf.content_type,
     xwayland_serial |-> sf.xwayland_serial]
\* --------------------------------------------------- WlSurface::apply_state
\* the destination size is not looked at
ApplyViewportIgnoresDst(sf, p) ==
    LET sf1 == [sf EXCEPT
                  !.buffer_scale = IF p.scale.set THEN p.scale.val ELSE @,
                  !.buffer_transform = IF p.transform.set THEN p.transform.val ELSE @,
                  !.dst_size = IF p.dst_size.set THEN p.dst_size.val ELSE @,
                  !.src_rect = IF p.src_rect.set THEN p.src_rect.val ELSE @]
        viewport_changed == p.dst_size.set \/ p.src_rect.set
        bad == /\ viewport_changed
               /\ sf1.src_rect.set
               /\ \/ ~FixedIsInteger(sf1.src_rect.val[3])
                  \/ ~FixedIsInteger(sf1.src_rect.val[4])
    IN [sf |-> sf1,
        viewport_changed |-> viewport_changed,
        transform_changed |-> viewport_changed \/ p.scale.set \/ p.transform.set,
        res |-> IF bad THEN "NonIntegerViewportSize" ELSE "Ok"]

\* the source rectangle is checked only when the delta sets it
ApplyViewportOnSourceOnly(sf, p) ==
    LET sf1 == [sf EXCEPT
                  !.buffer_scale = IF p.scale.set THEN p.scale.val ELSE @,
                  !.buffer_transform = IF p.transform.set THEN p.transform.val ELSE @,
                  !.dst_size = IF p.dst_size.set THEN p.dst_size.val ELSE @,
                  !.src_rect = IF p.src_rect.set THEN p.src_rect.val ELSE @]
        viewport_changed == p.dst_size.set \/ p.src_rect.set
        bad == /\ p.src_rect.set
               /\ sf1.src_rect.set
               /\ ~sf1.dst_size.set
               /\ \/ ~FixedIsInteger(sf1.src_rect.val[3])
                  \/ ~FixedIsInteger(sf1.src_rect.val[4])
    IN [sf |-> sf1,
        viewport_changed |-> viewport_changed,
        transform_changed |-> viewport_changed \/ p.scale.set \/ p.transform.set,
        res |-> IF bad THEN "NonIntegerViewportSize" ELSE "Ok"]

\* Lines 856-883: scale, transform and viewport of the delta; the error is
\* NonIntegerViewportSize.
ApplyViewport(sf, p) ==
    LET sf1 == [sf EXCEPT
                  !.buffer_scale = IF p.scale.set THEN p.scale.val ELSE @,
                  !.buffer_transform = IF p.transform.set THEN p.transform.val ELSE @,
                  !.dst_size = IF p.dst_size.set THEN p.dst_size.val ELSE @,
                  !.src_rect = IF p.src_rect.set THEN p.src_rect.val ELSE @]
        viewport_changed == p.dst_size.set \/ p.src_rect.set
        bad == /\ viewport_changed
               /\ sf1.src_rect.set
               /\ ~sf1.dst_size.set
               /\ \/ ~FixedIsInteger(sf1.src_rect.val[3])
                  \/ ~FixedIsInteger(sf1.src_rect.val[4])
    IN [sf |-> sf1,
        viewport_changed |-> viewport_changed,
        transform_changed |-> viewport_changed \/ p.scale.set \/ p.transform.set,
        res |-> IF bad THEN "NonIntegerViewportSize" ELSE "Ok"]

\* Lines 892-909: the SurfaceBuffer built for a newly attached buffer.
NewSurfaceBufferImplicit(p) ==
    [buffer |-> p.buffer.val,
     sync_files |-> {},
     sync |-> "Implicit",
     release_sync |-> "Implicit",
     release |-> p.release_point]

NewSurfaceBufferNoRelease(p) ==
    [buffer |-> p.buffer.val,
     sync_files |-> {},
     sync |-> IF p.explicit_sync THEN "Unnecessary" ELSE "Implicit",
     release_sync |-> IF p.explicit_sync THEN "Explicit" ELSE "Implicit",
     release |-> 0]

NewSurfaceBuffer(p) ==
    [buffer |-> p.buffer.val,
     sync_files |-> {},
     sync |-> IF p.explicit_sync THEN "Unnecessary" ELSE "Implicit",
     release_sync |-> IF p.explicit_sync THEN "Explicit" ELSE "Implicit",
     release |-> p.release_point]

\* Lines 884-925: the buffer swap.  `old` is the SurfaceBuffer taken out of
\* the surface (NoSurfaceBuffer if none was taken), which is dropped.
ApplyBufferKeepsOld(sf, p) ==
    [sf |-> sf, buffer_changed |-> p.buffer.set, old |-> NoSurfaceBuffer,
     release_taken |-> FALSE]

\* the offset moves the buffer position also when the delta attaches no
\* buffer
ApplyBufferOffsetAlways(sf, p) ==
    LET dx == p.offset[1]
        dy == p.offset[2]
    IN IF ~p.buffer.set
       THEN [sf |-> [sf EXCEPT !.buf_x = @ + dx, !.buf_y = @ + dy],
             buffer_changed |-> FALSE, old |-> NoSurfaceBuffer,
             release_taken |-> FALSE]
       ELSE IF p.buffer.val # 0
       THEN [sf |-> [sf EXCEPT
                       !.buffer = NewSurfaceBuffer(p),
                       !.buf_x = @ + dx,
                       !.buf_y = @ + dy,
                       !.need_extents_update = @ \/ <<dx, dy>> # <<0, 0>>],
             buffer_changed |-> TRUE, old |-> sf.buffer, release_taken |-> TRUE]
       ELSE [sf |-> [sf EXCEPT
                       !.buffer = NoSurfaceBuffer,
                       !.buf_x = 0,
                       !.buf_y = 0],
             buffer_changed |-> TRUE, old |-> sf.buffer, release_taken |-> FALSE]

ApplyBuffer(sf, p) ==
    LET dx == p.offset[1]
        dy == p.offset[2]
    IN IF ~p.buffer.set
       THEN [sf |-> sf, buffer_changed |-> FALSE, old |-> NoSurfaceBuffer,
             release_taken |-> FALSE]
       ELSE IF p.buffer.val # 0
       THEN [sf |-> [sf EXCEPT
                       !.buffer = NewSurfaceBuffer(p),
                       !.buf_x = @ + dx,
                       !.buf_y = @ + dy,
                       !.need_extents_update = @ \/ <<dx, dy>> # <<0, 0>>],
             buffer_changed |-> TRUE, old |-> sf.buffer, release_taken |-> TRUE]
       ELSE [sf |-> [sf EXCEPT
                       !.buffer = NoSurfaceBuffer,
                       !.buf_x = 0,
                       !.buf_y = 0],
             buffer_changed |-> TRUE, old |-> sf.buffer, release_taken |-> FALSE]

\* the source crop is preferred to the destination size
ViewportSizeCropFirst(sf) ==
    IF sf.src_rect.set
    THEN Some_(<<FixedToInt(sf.src_rect.val[3]), FixedToInt(sf.src_rect.val[4])>>)
    ELSE IF sf.dst_size.set THEN Some_(sf.dst_size.val)
    ELSE None_(<<0, 0>>)

\* Lines 931-956: the size given by the viewport, if any.
ViewportSize(sf) ==
    IF sf.src_rect.set
    THEN Some_(IF sf.dst_size.set THEN sf.dst_size.val
               ELSE <<FixedToInt(sf.src_rect.val[3]), FixedToInt(sf.src_rect.val[4])>>)
    ELSE IF sf.dst_size.set THEN Some_(sf.dst_size.val)
    ELSE None_(<<0, 0>>)

\* Lines 959-968: the size given by the buffer.
BufferDerivedSize(sf) ==
    LET sz == maybe_swap(sf.buffer_transform, BufferSize(sf.buffer.buffer))
        scale == sf.buffer_scale
    IN IF scale # 1
       THEN <<(sz[1] + scale - 1) \div scale, (sz[2] + scale - 1) \div scale>>
       ELSE sz

\* the sample rectangle is only checked when the transform changed
RenormaliseOnTransformOnly(sf, transform_changed, old) ==
    sf.buffer.buffer # 0 /\ transform_changed

\* Line 970: whether the sample rectangle is normalised and checked again:
\* the transform changed or the buffer's rectangle is not the old one's.
Renormalise(sf, transform_changed, old) ==
    /\ sf.buffer.buffer # 0
    /\ \/ transform_changed
       \/ old.buffer = 0
       \/ BufferSize(sf.buffer.buffer) # BufferSize(old.buffer)

\* Lines 926-1004: buffer points, normalised sample rectangle and size.
\* `old` is the replaced buffer; the error is ViewportOutsideBuffer.
ApplyGeometry(sf, transform_changed, buffer_changed, old) ==
    IF ~(buffer_changed \/ transform_changed)
    THEN [sf |-> sf, res |-> "Ok"]
    ELSE
    LET scale == sf.buffer_scale
        r == sf.src_rect.val
        points == IF sf.src_rect.set /\ transform_changed
                  THEN [x1 |-> r[1] * scale, y1 |-> r[2] * scale,
                        x2 |-> r[1] * scale + r[3] * scale,
                        y2 |-> r[2] * scale + r[4] * scale]
                  ELSE sf.buffer_points
        vsize == ViewportSize(sf)
        has_buffer == sf.buffer.buffer # 0
        new_size == IF vsize.set THEN vsize.val
                    ELSE IF has_buffer THEN BufferDerivedSize(sf)
                    ELSE <<0, 0>>
        renorm == Renormalise(sf, transform_changed, old)
        sz == maybe_swap(sf.buffer_transform, BufferSize(sf.buffer.buffer))
        outside == /\ renorm
                   /\ sf.src_rect.set
                   /\ \/ points.x1 > sz[1] * FixedOne
                      \/ points.x2 > sz[1] * FixedOne
                      \/ points.y1 > sz[2] * FixedOne
                      \/ points.y2 > sz[2] * FixedOne
        norm == IF ~sf.src_rect.set
                THEN [x1 |-> <<0, 1>>, y1 |-> <<0, 1>>,
                      x2 |-> <<FixedOne, 1>>, y2 |-> <<FixedOne, 1>>,
                      buffer_transform |-> sf.buffer_transform]
                ELSE [x1 |-> <<points.x1, sz[1]>>, y1 |-> <<points.y1, sz[2]>>,
                      x2 |-> <<points.x2, sz[1]>>, y2 |-> <<points.y2, sz[2]>>,
                      buffer_transform |-> sf.buffer_transform]
    IN IF outside
       THEN [sf |-> [sf EXCEPT !.buffer_points = points],
             res |-> "ViewportOutsideBuffer"]
       ELSE [sf |-> [sf EXCEPT
                       !.buffer_points = points,
                       !.buffer_points_norm = IF renorm THEN norm ELSE @,
                       !.need_extents_update =
                           @ \/ new_size # RectSize(sf.buffer_abs_pos),
                       !.buffer_abs_pos =
                           RectWithSize(@, new_size[1], new_size[2])],
             res |-> "Ok"]

\* Lines 1005-1040: frame requests, presentation feedback, regions, tearing,
\* content type and xwayland serial.
\* a region or content type set to none is not applied
ApplyRestIgnoresNone(sf, p) ==
    [sf EXCEPT
       !.frame_requests = @ \o p.frame_request,
       !.presentation_feedback = p.presentation_feedback,
       !.input_region = IF p.input_region.set /\ p.input_region.val # 0
                        THEN p.input_region.val ELSE @,
       !.opaque_region = IF p.opaque_region.set /\ p.opaque_region.val # 0
                         THEN p.opaque_region.val ELSE @,
       !.tearing = IF p.tearing.set THEN p.tearing.val ELSE @,
       !.content_type = IF p.content_type.set /\ p.content_type.val # 0
                        THEN p.content_type.val ELSE @,
       !.xwayland_serial = IF p.xwayland_serial.set
                           THEN Some_(p.xwayland_serial.val) ELSE @]

ApplyRest(sf, p) ==
    [sf EXCEPT
       !.frame_requests = @ \o p.frame_request,
       !.presentation_feedback = p.presentation_feedback,
       !.input_region = IF p.input_region.set THEN p.input_region.val ELSE @,
       !.opaque_region = IF p.opaque_region.set THEN p.opaque_region.val ELSE @,
       !.tearing = IF p.tearing.set THEN p.tearing.val ELSE @,
       !.content_type = IF p.content_type.set THEN p.content_type.val ELSE @,
       !.xwayland_serial = IF p.xwayland_serial.set
                           THEN Some_(p.xwayland_serial.val) ELSE @]
\* WlSubsurface objects: sub[c] = [parent, sync, x, y] for a surface c with
\* the subsurface role; the position is that of the subsurface in its parent.
\* the extents of a child are united with what was gathered so far also
\* when that is empty
RECURSIVE ChildExtentsPlainUnion(_, _, _, _)
ChildExtentsPlainUnion(S, sub, cs, acc) ==
    IF cs = {} THEN acc
    ELSE LET c == CHOOSE i \in cs : \A j \in cs : i <= j
             ce == S[c].extents
             moved == RectMove(ce, sub[c].x, sub[c].y)
         IN ChildExtentsPlainUnion(S, sub, cs \ {c},
                IF RectIsEmpty(ce) THEN acc ELSE RectUnion(acc, moved))

RECURSIVE ChildExtents(_, _, _, _)
ChildExtents(S, sub, cs, acc) ==
    IF cs = {} THEN acc
    ELSE LET c == CHOOSE i \in cs : \A j \in cs : i <= j
             ce == S[c].extents
             moved == RectMove(ce, sub[c].x, sub[c].y)
             acc1 == IF RectIsEmpty(ce) THEN acc
                     ELSE IF RectIsEmpty(acc) THEN moved
                     ELSE RectUnion(acc, moved)
         IN ChildExtents(S, sub, cs \ {c}, acc1)

\* WlSurface::calculate_extents; `changed` is whether extents_changed of the
\* role extension was called.
calculate_extents(S, sub, sf) ==
    LET own == RectAtPoint(sf.buffer_abs_pos, 0, 0)
        extents == IF sf.children.set
                   THEN ChildExtents(S, sub, sf.children.val, own)
                   ELSE own
    IN [sf |-> [sf EXCEPT !.extents = extents, !.need_extents_update = FALSE],
        changed |-> sf.extents # extents]

\* What apply_state has taken out of the delta at each of its exits.
TakenViewport(p) ==
    [p EXCEPT !.scale = None_(0), !.transform = None_("None"),
              !.dst_size = None_(None_(<<0, 0>>)),
              !.src_rect = None_(None_(<<0, 0, 0, 0>>))]
\* the attached buffer stays in the delta
TakenBufferKeepsBuffer(p, release_taken) ==
    [p EXCEPT !.offset = <<0, 0>>,
              !.release_point = IF release_taken THEN 0 ELSE @]
TakenBuffer(p, release_taken) ==
    [p EXCEPT !.offset = <<0, 0>>, !.buffer = None_(0),
              !.release_point = IF release_taken THEN 0 ELSE @]
TakenRest(p) ==
    [p EXCEPT !.frame_request = <<>>, !.presentation_feedback = <<>>,
              !.input_region = None_(0), !.opaque_region = None_(0),
              !.tearing = None_(FALSE), !.content_type = None_(0),
              !.xwayland_serial = None_(0)]

\* apply_state below the destroyed check (lines 855-1052): the surface's own
\* fields.  before_apply_commit and after_apply_commit of the role extension
\* are the trait's defaults.
ApplyOwn(S, sub, s, p) ==
    Let(ApplyViewport(S[s], p), LAMBDA a :
    Let(ApplyBuffer(a.sf, p), LAMBDA b :
    Let(ApplyGeometry(b.sf, a.transform_changed, b.buffer_changed, b.old), LAMBDA g :
    Let(ApplyRest(g.sf, p), LAMBDA r :
    Let(IF r.need_extents_update
        THEN calculate_extents(S, sub, r)
        ELSE [sf |-> r, changed |-> FALSE], LAMBDA e :
    LET pa == TakenViewport(p)
        pb == TakenBuffer(pa, b.release_taken)
        pr == TakenRest(pb)
    IN IF a.res # "Ok"
       THEN [sf |-> a.sf, rest |-> pa, res |-> a.res, old |-> NoSurfaceBuffer,
             fb |-> <<>>, extents_ran |-> FALSE, extents_changed |-> FALSE]
       ELSE IF g.res # "Ok"
       THEN [sf |-> g.sf, rest |-> pb, res |-> g.res, old |-> b.old,
             fb |-> <<>>, extents_ran |-> FALSE, extents_changed |-> FALSE]
       ELSE [sf |-> e.sf, rest |-> pr, res |-> "Ok", old |-> b.old,
             fb |-> g.sf.presentation_feedback,
             extents_ran |-> r.need_extents_update,
             extents_changed |-> e.changed])))))

RECURSIVE apply_state(_, _, _, _)
RECURSIVE ApplyChildren(_, _, _, _)

\* for (_, subsurface) in pending.subsurfaces.drain(): apply each nested
\* child delta, stopping at the first error.
ApplyChildren(S, sub, subs, ids) ==
    IF ids = {} THEN [S |-> S, res |-> "Ok", drops |-> <<>>, applied |-> <<>>]
    ELSE Let(CHOOSE i \in ids : \A j \in ids : i <= j, LAMBDA c :
         Let(apply_state(S, sub, c, subs[c]), LAMBDA one :
           IF one.res # "Ok"
           THEN [S |-> one.S, res |-> one.res, drops |-> one.drops,
                 applied |-> one.applied]
           ELSE Let(ApplyChildren(one.S, sub, subs, ids \ {c}), LAMBDA rest :
                  [S |-> rest.S, res |-> rest.res,
                   drops |-> one.drops \o rest.drops,
                   applied |-> one.applied \o rest.applied])))

\* the nested child deltas are dropped instead of applied
ApplyStateDropsChildren(S, sub, s, p) ==
    Let([p EXCEPT !.subsurfaces = EmptyMap], LAMBDA p1 :
      IF S[s].destroyed
      THEN [S |-> S, res |-> "Ok", drops |-> <<>>, applied |-> <<>>, rest |-> p1]
      ELSE Let(ApplyOwn(S, sub, s, p1), LAMBDA own :
             [S |-> [S EXCEPT ![s] = own.sf], res |-> own.res,
              drops |-> IF own.old.buffer # 0
                        THEN <<[surface |-> s, sb |-> own.old]>> ELSE <<>>,
              applied |-> IF own.res = "Ok"
                          THEN <<[surface |-> s, commits |-> p.commits,
                                 extents |-> <<own.extents_ran,
                                               own.extents_changed>>,
                                 serial |-> p.xwayland_serial]>>
                          ELSE <<>>,
              rest |-> [own.rest EXCEPT !.commits = <<>>]]))

\* the surface's own fields are applied before the nested child deltas
ApplyStateOwnFirst(S, sub, s, p) ==
    Let([p EXCEPT !.subsurfaces = EmptyMap], LAMBDA p1 :
      IF S[s].destroyed
      THEN Let(ApplyChildren(S, sub, p.subsurfaces, DOMAIN p.subsurfaces),
               LAMBDA ch : [S |-> ch.S, res |-> ch.res, drops |-> ch.drops,
                            applied |-> ch.applied, rest |-> p1])
      ELSE Let(ApplyOwn(S, sub, s, p1), LAMBDA own :
           Let(IF own.res = "Ok"
               THEN ApplyChildren([S EXCEPT ![s] = own.sf], sub, p.subsurfaces,
                                  DOMAIN p.subsurfaces)
               ELSE [S |-> [S EXCEPT ![s] = own.sf], res |-> own.res,
                     drops |-> <<>>, applied |-> <<>>], LAMBDA ch :
             [S |-> ch.S, res |-> ch.res,
              drops |-> (IF own.old.buffer # 0
                         THEN <<[surface |-> s, sb |-> own.old]>> ELSE <<>>)
                        \o ch.drops,
              applied |-> IF own.res = "Ok"
                          THEN <<[surface |-> s, commits |-> p.commits,
                                 extents |-> <<own.extents_ran,
                                               own.extents_changed>>,
                                 serial |-> p.xwayland_serial]>>
                               \o ch.applied
                          ELSE ch.applied,
              rest |-> [own.rest EXCEPT !.commits = <<>>]])))

\* the destroyed check before the nested child deltas: nothing is applied
\* below a destroyed surface
ApplyStateDestroyedFirst(S, sub, s, p) ==
    Let([p EXCEPT !.subsurfaces = EmptyMap], LAMBDA p1 :
      IF S[s].destroyed
      THEN [S |-> S, res |-> "Ok", drops |-> <<>>, applied |-> <<>>,
            rest |-> p1]
      ELSE Let(ApplyChildren(S, sub, p.subsurfaces, DOMAIN p.subsurfaces),
               LAMBDA ch :
        IF ch.res # "Ok"
        THEN [S |-> ch.S, res |-> ch.res, drops |-> ch.drops,
              applied |-> ch.applied, rest |-> p1]
        ELSE Let(ApplyOwn(ch.S, sub, s, p1), LAMBDA own :
               [S |-> [ch.S EXCEPT ![s] = own.sf], res |-> own.res,
                drops |-> ch.drops \o
                          (IF own.old.buffer # 0
                           THEN <<[surface |-> s, sb |-> own.old]>> ELSE <<>>),
                applied |-> IF own.res = "Ok"
                            THEN ch.applied \o
                                 <<[surface |-> s, commits |-> p.commits,
                                 extents |-> <<own.extents_ran,
                                               own.extents_changed>>,
                                 serial |-> p.xwayland_serial]>>
                            ELSE ch.applied,
                rest |-> [own.rest EXCEPT !.commits = <<>>]])))

\* the destroyed check the wrong way round
ApplyStateSkipsLive(S, sub, s, p) ==
    LET ch == ApplyChildren(S, sub, p.subsurfaces, DOMAIN p.subsurfaces)
        p1 == [p EXCEPT !.subsurfaces = EmptyMap]
    IN [S |-> ch.S, res |-> ch.res, drops |-> ch.drops,
        applied |-> ch.applied, rest |-> p1]

\* WlSurface::apply_state(pending) on surface s.  S is the state of all
\* surfaces.  `drops` are the SurfaceBuffers that were dropped, `applied`
\* the surfaces whose own fields were applied, in order, `rest` is what is
\* left in `pending`.
apply_state(S, sub, s, p) ==
    Let(ApplyChildren(S, sub, p.subsurfaces, DOMAIN p.subsurfaces), LAMBDA ch :
    Let([p EXCEPT !.subsurfaces = EmptyMap], LAMBDA p1 :
      IF ch.res # "Ok"
      THEN [S |-> ch.S, res |-> ch.res, drops |-> ch.drops,
            applied |-> ch.applied, rest |-> p1]
      ELSE IF ch.S[s].destroyed
      THEN [S |-> ch.S, res |-> "Ok", drops |-> ch.drops,
            applied |-> ch.applied, rest |-> p1]
      ELSE Let(ApplyOwn(ch.S, sub, s, p1), LAMBDA own :
             [S |-> [ch.S EXCEPT ![s] = own.sf], res |-> own.res,
              drops |-> ch.drops \o
                        (IF own.old.buffer # 0
                         THEN <<[surface |-> s, sb |-> own.old]>> ELSE <<>>),
              applied |-> IF own.res = "Ok"
                          THEN ch.applied \o
                               <<[surface |-> s, commits |-> p.commits,
                                 extents |-> <<own.extents_ran,
                                               own.extents_changed>>,
                                 serial |-> p.xwayland_serial]>>
                          ELSE ch.applied,
              rest |-> [own.rest EXCEPT !.commits = <<>>]])))
\* ------------------------------------------------------------ CommitTimeline
\* The commit timeline of a surface: Idle, or AwaitingAcquireFence with the
\* held delta.  `ready` is whether the acquire fence has been signalled.
IdleTimeline == [state |-> "Idle", held |-> DefaultPendingState, ready |-> FALSE]

\* CommitTimeline::commit decides between rejecting the commit (a gated commit
\* is outstanding), holding it for its acquire fence, and applying it now.
TimelineDecision(t, p) ==
    IF t.state = "AwaitingAcquireFence" THEN "Reject"
    ELSE IF p.explicit_sync /\ p.acquire_point # 0 THEN "Gate"
    ELSE "Apply"

\* CommitTimeline::clear: the held delta is discarded; the release point it
\* owned is signalled.
TimelineClear(t) ==
    [tl |-> IdleTimeline,
     cleared |-> t.state = "AwaitingAcquireFence",
     buffer |-> IF t.state = "AwaitingAcquireFence" THEN t.held.buffer.val ELSE 0,
     signalled |-> IF t.state = "AwaitingAcquireFence"
                   THEN signal_point(t.held.release_point) ELSE 0,
     commits |-> IF t.state = "AwaitingAcquireFence" THEN t.held.commits ELSE <<>>]

\* ------------------------------------------------------------------- state
VARIABLES
    surf,          \* surface id -> WlSurface
    sub,           \* subsurface id -> WlSubsurface [parent, sync, x, y]
    tl,            \* surface id -> commit timeline
    destroyed,     \* the wl_buffers the client has destroyed
    render_ctx,    \* whether state.render_ctx is set
    err,           \* the protocol error that ended the client, or "None"
    ncommits,      \* number of commit requests issued
    applied,       \* surface id -> numbers of the commits applied, in order
    cnt,           \* history: counters of superseded buffers and releases
    surfaces_by_xwayland_serial,
                   \* Client::surfaces_by_xwayland_serial: <<serial, surface>>
    position,      \* XdgPositioner::position of the client's xdg_positioner
    xorg,          \* the XorgOutput of the X11 backend and the Present
                   \* events the X server has still to deliver for it
    last           \* history: the last step and what it sent

\* ------------------------------------------------------------ XdgPositioned
\* Square::from_enum (ifs/xdg_positioner/mod.rs lines 46-62): the edges of an
\* anchor or gravity value, or "None" for a value that is none of the enum's.
from_enum(e) ==
    CASE e = 0 -> {}
      [] e = 1 -> {"TOP"}
      [] e = 2 -> {"BOTTOM"}
      [] e = 3 -> {"LEFT"}
      [] e = 4 -> {"RIGHT"}
      [] e = 5 -> {"TOP", "LEFT"}
      [] e = 6 -> {"BOTTOM", "LEFT"}
      [] e = 7 -> {"TOP", "RIGHT"}
      [] e = 8 -> {"BOTTOM", "RIGHT"}
      [] OTHER -> {"None"}

\* #[derive(Default)] XdgPositioned (lines 86-100), the fields get_position
\* reads.
XdgPositioned ==
    [size_width |-> 0, size_height |-> 0, ar |-> Rect(0, 0, 0, 0),
     anchor |-> {}, gravity |-> {}, off_x |-> 0, off_y |-> 0]

\* i32 division by 2, which truncates towards zero.
Half(n) == IF n >= 0 THEN n \div 2 ELSE -((-n) \div 2)

\* XdgPositioned::get_position (lines 107-140)
get_position(self) ==
    LET x0 == self.off_x
        y0 == self.off_x
        x1 == IF "LEFT" \in self.anchor THEN x0 + self.ar.x1
              ELSE IF "RIGHT" \in self.anchor THEN x0 + self.ar.x2
              ELSE x0 + self.ar.x1 + Half(RectWidth(self.ar))
        y1 == IF "TOP" \in self.anchor THEN y0 + self.ar.y1
              ELSE IF "BOTTOM" \in self.anchor THEN y0 + self.ar.y2
              ELSE y0 + self.ar.y1 + Half(RectHeight(self.ar))
        x2 == IF "LEFT" \in self.gravity THEN x1 - self.size_width
              ELSE IF "RIGHT" \notin self.gravity
              THEN x1 - Half(self.size_width)
              ELSE x1
        y2 == IF "TOP" \in self.gravity THEN y1 - self.size_height
              ELSE IF "BOTTOM" \notin self.gravity
              THEN y1 - Half(self.size_height)
              ELSE y1
    IN Rect(x2, y2, x2 + self.size_width, y2 + self.size_height)

\* ---------------------------------------------------------------- XorgOutput
\* XorgImage as create_images makes it (backends/xorg.rs lines 356-362) and
\* XorgOutput as it is made for a new window (lines 398-411), with its two
\* images.
XorgImage == [idle |-> TRUE, render_on_idle |-> FALSE, last_serial |-> 0]
XorgOutput == [images |-> <<XorgImage, XorgImage>>, serial |-> 0, next_image |-> 0]

\* No output: the backend is not the X11 backend.
NoOutput == [output |-> XorgOutput, complete |-> {}, idle |-> {}]

vars == <<surf, sub, tl, destroyed, render_ctx, err, ncommits, applied, cnt,
          surfaces_by_xwayland_serial, position, xorg, last>>

NoStep ==
    [op |-> "init", s |-> 0, res |-> "Ok", verify |-> "Ok", outcome |-> "none",
     drops |-> <<>>, notes |-> <<>>, applied |-> <<>>, cleared |-> <<>>,
     arg |-> <<>>, replaced |-> <<>>, fb |-> <<>>,
     found |-> <<>>, presents |-> <<>>,
                        rect |-> <<>>]

\* `objects` counts the wl_callback and wp_presentation_feedback objects the
\* client has created; the n-th of them has the id n.
NoCount ==
    [superseded |-> 0, legacy |-> 0, explicit |-> 0, unreleasable |-> 0,
     objects |-> 0]

\* two independent surfaces without role
InitFlat ==
    /\ surf = [s \in {1, 2} |-> NewSurface(6)]
    /\ sub = EmptyMap
    /\ tl = [s \in {1, 2} |-> IdleTimeline]
    /\ destroyed = {}
    /\ render_ctx = TRUE
    /\ err = "None"
    /\ ncommits = 0
    /\ applied = [s \in {1, 2} |-> <<>>]
    /\ cnt = NoCount
    /\ surfaces_by_xwayland_serial = {}
    /\ position = XdgPositioned
    /\ xorg = NoOutput
    /\ last = NoStep
\* ------------------------------------------------- SurfaceExt::commit_requested
\* The default of the trait continues the commit.  A synchronized subsurface
\* folds its delta into the entry its parent's pending state holds for it
\* (merging into an entry that is already there) and aborts the commit.
commit_requested(S, sub_, s, p, destroyed_) ==
    IF S[s].ext = "Subsurface" /\ sub_[s].sync
    THEN LET par == sub_[s].parent
             subs == S[par].pending.subsurfaces
             m == IF s \in DOMAIN subs
                  THEN merge(subs[s], p, destroyed_)
                  ELSE [state |-> p, notes |-> <<>>, fb |-> <<>>]
             rest == IF s \in DOMAIN subs THEN MergeRest(p) ELSE DefaultPendingState
             subs1 == [i \in DOMAIN subs \cup {s} |->
                          IF i = s THEN m.state ELSE subs[i]]
         IN [action |-> "AbortCommit",
             S |-> [S EXCEPT ![par].pending.subsurfaces = subs1,
                             ![s].pending = rest],
             notes |-> m.notes, fb |-> m.fb]
    ELSE [action |-> "ContinueCommit", S |-> S, notes |-> <<>>, fb |-> <<>>]

\* ---------------------------------------------------------- WlSurface::commit
\* Lines 1055-1064 with CommitTimeline::commit.  n is the number of this
\* commit request.  The result: the surfaces S and timelines T afterwards,
\* the error (or "Ok"), the result of the validation, what became of the
\* delta, and what apply_state and merge reported.
CommitPending(S, s, n) ==
    [S[s].pending EXCEPT !.explicit_sync = S[s].sync_obj_surface,
                         !.commits = <<n>>]

\* The handler, given what the timeline decides (d).
CommitVia(S, T, sub_, s, n, destroyed_, d) ==
    LET p == CommitPending(S, s, n)
        v == verify_explicit_sync(S[s].sync_obj_surface, p)
        S1 == [S EXCEPT ![s].pending = p]
        cr == commit_requested(S1, sub_, s, p, destroyed_)
        a == apply_state(S1, sub_, s, p)
    IN IF v # "Ok"
       THEN [S |-> [S EXCEPT ![s].pending.explicit_sync = S[s].sync_obj_surface],
             T |-> T, res |-> v, verify |-> v, outcome |-> "rejected",
             drops |-> <<>>, notes |-> <<>>, applied |-> <<>>, fb |-> <<>>]
       ELSE IF cr.action = "AbortCommit"
       THEN [S |-> cr.S, T |-> T, res |-> "Ok", verify |-> v,
             outcome |-> "buffered",
             drops |-> <<>>, notes |-> cr.notes, applied |-> <<>>,
             fb |-> cr.fb]
       ELSE IF d = "Reject"
       THEN [S |-> [S EXCEPT ![s].pending.explicit_sync = S[s].sync_obj_surface],
             T |-> T, res |-> "CommitTimelineError", verify |-> v,
             outcome |-> "rejected",
             drops |-> <<>>, notes |-> <<>>, applied |-> <<>>, fb |-> <<>>]
       ELSE IF d = "Gate"
       THEN [S |-> [S EXCEPT ![s].pending = DefaultPendingState],
             T |-> [T EXCEPT ![s] = [state |-> "AwaitingAcquireFence",
                                     held |-> p, ready |-> FALSE]],
             res |-> "Ok", verify |-> v, outcome |-> "gated",
             drops |-> <<>>, notes |-> <<>>, applied |-> <<>>, fb |-> <<>>]
       ELSE [S |-> [a.S EXCEPT ![s].pending = a.rest],
             T |-> T, res |-> a.res, verify |-> v,
             outcome |-> IF a.res = "Ok" THEN "applied" ELSE "failed",
             drops |-> a.drops, notes |-> <<>>, applied |-> a.applied,
             fb |-> <<>>]

\* an ungated commit is applied although a gated one is outstanding
CommitOvertakes(S, T, sub_, s, n, destroyed_) ==
    CommitVia(S, T, sub_, s, n, destroyed_,
              IF CommitPending(S, s, n).explicit_sync
                 /\ CommitPending(S, s, n).acquire_point # 0
              THEN TimelineDecision(T[s], CommitPending(S, s, n))
              ELSE "Apply")

\* a commit that finds a gated one outstanding takes its place
CommitReplacesHeld(S, T, sub_, s, n, destroyed_) ==
    CommitVia(S, T, sub_, s, n, destroyed_,
              IF T[s].state = "AwaitingAcquireFence" THEN "Gate"
              ELSE TimelineDecision(T[s], CommitPending(S, s, n)))

\* the timeline of another surface is consulted as well
CommitSharedTimeline(S, T, sub_, s, n, destroyed_) ==
    CommitVia(S, T, sub_, s, n, destroyed_,
              IF \E t \in DOMAIN T : T[t].state = "AwaitingAcquireFence"
              THEN "Reject"
              ELSE TimelineDecision(T[s], CommitPending(S, s, n)))

\* the result of commit_requested is ignored: the commit goes to the
\* timeline although the extension aborted it
CommitIgnoresAbort(S, T, sub_, s, n, destroyed_) ==
    CommitVia(S, T, [c \in DOMAIN sub_ |-> [sub_[c] EXCEPT !.sync = FALSE]],
              s, n, destroyed_,
              TimelineDecision(T[s], CommitPending(S, s, n)))

commit(S, T, sub_, s, n, destroyed_) ==
    CommitVia(S, T, sub_, s, n, destroyed_,
              TimelineDecision(T[s], CommitPending(S, s, n)))

\* --------------------------------------------------------- history helpers
DropOutcomes(drops, ctx, import_ok, destroyed_) ==
    [i \in 1..Len(drops) |->
        [surface |-> drops[i].surface,
         out |-> DropSurfaceBuffer(drops[i].sb, ctx, import_ok,
                                   drops[i].sb.buffer \in destroyed_)]]

Count(seq, P(_)) == Cardinality({i \in 1..Len(seq) : P(seq[i])})

DropIsExplicit(d) == d.out.point_signalled \/ d.out.point_imported
DropIsLegacy(d) == d.out.released
NoteIsDiscard(n) == n.discarded # 0
NoteIsExplicit(n) == n.signalled # 0
NoteIsLegacy(n) == n.released # 0
ClearIsDiscard(c) == c.buffer # 0
ClearIsExplicit(c) == c.signalled # 0

\* A buffer that no release can be sent for: its release point cannot be
\* signalled without a render context, and a wl_buffer the client has
\* destroyed cannot receive the release event.
DropIsUnreleasable(d) ==
    \/ d.out.release # 0 /\ ~d.out.ctx
    \/ d.out.release = 0 /\ d.out.destroyed
NoteIsUnreleasable(n) == n.discarded # 0 /\ ~n.had_point /\ n.was_destroyed

Counted(c, drops, notes, cleared) ==
    [superseded |-> c.superseded + Len(drops) + Count(notes, NoteIsDiscard)
                        + Count(cleared, ClearIsDiscard),
     legacy |-> c.legacy + Count(drops, DropIsLegacy) + Count(notes, NoteIsLegacy),
     explicit |-> c.explicit + Count(drops, DropIsExplicit)
                        + Count(notes, NoteIsExplicit)
                        + Count(cleared, ClearIsExplicit),
     unreleasable |-> c.unreleasable + Count(drops, DropIsUnreleasable)
                        + Count(notes, NoteIsUnreleasable),
     objects |-> c.objects]

\* CopyHashMap::set and CopyHashMap::remove on surfaces_by_xwayland_serial.
SerialSet(index, serial, s) ==
    {e \in index : e[1] # serial} \cup {<<serial, s>>}
\* the entry stays in the index
SerialRemoveNothing(index, serial) == index
SerialRemove(index, serial) == {e \in index : e[1] # serial}

\* Lines 1030-1034 for the deltas applied in one commit, in the order of
\* their application.
RECURSIVE Indexed(_, _)
Indexed(index, entries) ==
    IF entries = <<>> THEN index
    ELSE Indexed(IF entries[1].serial.set
                 THEN SerialSet(index, entries[1].serial.val, entries[1].surface)
                 ELSE index,
                 Tail(entries))

RECURSIVE Logged(_, _)
Logged(log, entries) ==
    IF entries = <<>> THEN log
    ELSE Logged([log EXCEPT ![entries[1].surface] = @ \o entries[1].commits],
                Tail(entries))
\* ------------------------------------------------------------------ actions
Alive(s) == err = "None" /\ s \in DOMAIN surf /\ ~surf[s].destroyed

\* The pending state of s attaches a non-null buffer.
NewBuffer(s) == surf[s].pending.buffer.set /\ surf[s].pending.buffer.val # 0

\* attach without the check of the version: the offset of the request is
\* stored whatever the version
AttachAcceptsOffset(s, b, x, y) ==
    /\ Alive(s)
    /\ LET res == IF b \in destroyed THEN "ClientError" ELSE "Ok"
           p1 == [surf[s].pending EXCEPT !.offset = <<x, y>>]
           p2 == IF res = "Ok" THEN [p1 EXCEPT !.buffer = Some_(b)] ELSE p1
       IN /\ surf' = [surf EXCEPT ![s].pending = p2]
          /\ err' = IF res = "Ok" THEN "None" ELSE res
          /\ last' = [NoStep EXCEPT !.op = "attach", !.s = s, !.res = res,
                                     !.arg = <<x, y>>,
                                     !.replaced = surf[s].pending.offset]
    /\ UNCHANGED <<xorg, position, sub, tl, destroyed, render_ctx, ncommits, applied, cnt,
                   surfaces_by_xwayland_serial>>

\* wl_surface.attach (lines 789-806).  The lookup of a buffer the client
\* has destroyed fails.
Attach(s, b, x, y) ==
    /\ Alive(s)
    /\ LET offs == surf[s].version >= 5
           res == IF offs /\ (x # 0 \/ y # 0) THEN "OffsetInAttach"
                  ELSE IF b \in destroyed THEN "ClientError"
                  ELSE "Ok"
           p1 == IF offs THEN surf[s].pending
                 ELSE [surf[s].pending EXCEPT !.offset = <<x, y>>]
           p2 == IF res = "Ok" THEN [p1 EXCEPT !.buffer = Some_(b)] ELSE p1
       IN /\ surf' = IF res = "OffsetInAttach" THEN surf
                     ELSE [surf EXCEPT ![s].pending = p2]
          /\ err' = IF res = "Ok" THEN "None" ELSE res
          /\ last' = [NoStep EXCEPT !.op = "attach", !.s = s, !.res = res,
                                     !.arg = <<x, y>>,
                                     !.replaced = surf[s].pending.offset]
    /\ UNCHANGED <<xorg, position, sub, tl, destroyed, render_ctx, ncommits, applied, cnt,
                   surfaces_by_xwayland_serial>>

\* wp_linux_drm_syncobj_manager_v1.get_surface: an explicit-sync object is
\* attached to the surface.
GetSyncObjSurface(s) ==
    /\ Alive(s)
    /\ ~surf[s].sync_obj_surface
    /\ surf' = [surf EXCEPT ![s].sync_obj_surface = TRUE]
    /\ last' = [NoStep EXCEPT !.op = "request"]
    /\ UNCHANGED <<xorg, position, sub, tl, destroyed, render_ctx, err, ncommits, applied, cnt,
                   surfaces_by_xwayland_serial>>

\* wp_linux_drm_syncobj_surface_v1.set_acquire_point / set_release_point
SetAcquirePoint(s, pt) ==
    /\ Alive(s)
    /\ surf[s].sync_obj_surface
    /\ surf[s].pending.acquire_point # pt
    /\ surf' = [surf EXCEPT ![s].pending.acquire_point = pt]
    /\ last' = [NoStep EXCEPT !.op = "request"]
    /\ UNCHANGED <<xorg, position, sub, tl, destroyed, render_ctx, err, ncommits, applied, cnt,
                   surfaces_by_xwayland_serial>>

SetReleasePoint(s, pt) ==
    /\ Alive(s)
    /\ surf[s].sync_obj_surface
    /\ surf[s].pending.release_point # pt
    /\ surf' = [surf EXCEPT ![s].pending.release_point = pt]
    /\ last' = [NoStep EXCEPT !.op = "request"]
    /\ UNCHANGED <<xorg, position, sub, tl, destroyed, render_ctx, err, ncommits, applied, cnt,
                   surfaces_by_xwayland_serial>>

\* wl_surface.commit
Commit(s) ==
    /\ Alive(s)
    /\ ncommits < MaxCommits
    /\ \E import_ok \in BOOLEAN,
          r \in {commit(surf, tl, sub, s, ncommits + 1, destroyed)} :
         LET drops == DropOutcomes(r.drops, render_ctx, import_ok, destroyed)
         IN /\ surf' = r.S
            /\ tl' = r.T
            /\ err' = IF r.res = "Ok" THEN "None" ELSE r.res
            /\ applied' = Logged(applied, r.applied)
            /\ surfaces_by_xwayland_serial' =
                  Indexed(surfaces_by_xwayland_serial, r.applied)
            /\ cnt' = Counted(cnt, drops, r.notes, <<>>)
            /\ last' = [op |-> "commit", s |-> s, res |-> r.res,
                        verify |-> r.verify, outcome |-> r.outcome,
                        drops |-> drops, notes |-> r.notes,
                        applied |-> r.applied, cleared |-> <<>>,
                        arg |-> <<>>, replaced |-> surf[s].pending.offset,
                        fb |-> r.fb, found |-> <<>>, presents |-> <<>>,
                        rect |-> <<>>]
    /\ ncommits' = ncommits + 1
    /\ UNCHANGED <<xorg, position, sub, destroyed, render_ctx>>

\* The acquire fence of the gated commit of s is signalled.
FenceSignal(s) ==
    /\ Alive(s)
    /\ tl[s].state = "AwaitingAcquireFence"
    /\ ~tl[s].ready
    /\ tl' = [tl EXCEPT ![s].ready = TRUE]
    /\ last' = [NoStep EXCEPT !.op = "request"]
    /\ UNCHANGED <<surf, xorg, position, sub, destroyed, render_ctx, err, ncommits, applied, cnt,
                   surfaces_by_xwayland_serial>>

\* The task waiting for the fence is resumed and applies the held delta.
ResumeCommit(s) ==
    /\ err = "None"
    /\ s \in DOMAIN surf
    /\ tl[s].state = "AwaitingAcquireFence"
    /\ tl[s].ready
    /\ \E import_ok \in BOOLEAN, a \in {apply_state(surf, sub, s, tl[s].held)} :
         LET drops == DropOutcomes(a.drops, render_ctx, import_ok, destroyed)
         IN /\ surf' = a.S
            /\ err' = IF a.res = "Ok" THEN "None" ELSE a.res
            /\ applied' = Logged(applied, a.applied)
            /\ surfaces_by_xwayland_serial' =
                  Indexed(surfaces_by_xwayland_serial, a.applied)
            /\ cnt' = Counted(cnt, drops, <<>>, <<>>)
            /\ last' = [op |-> "resume", s |-> s, res |-> a.res,
                        verify |-> "Ok",
                        outcome |-> IF a.res = "Ok" THEN "applied" ELSE "failed",
                        drops |-> drops, notes |-> <<>>,
                        applied |-> a.applied, cleared |-> <<>>,
                        arg |-> <<>>, replaced |-> <<>>, fb |-> <<>>,
                        found |-> <<>>, presents |-> <<>>,
                        rect |-> <<>>]
    /\ tl' = [tl EXCEPT ![s] = IdleTimeline]
    /\ UNCHANGED <<xorg, position, sub, destroyed, render_ctx, ncommits>>

\* wl_surface.destroy (lines 758-787)
RECURSIVE UnsetExt(_, _)
UnsetExt(S, cs) ==
    IF cs = {} THEN S
    ELSE LET c == CHOOSE i \in cs : TRUE
         IN UnsetExt([S EXCEPT ![c].ext = "None"], cs \ {c})

DestroyKeepsTimeline(S, T, s) ==
    IF S[s].ext # "None"
    THEN [S |-> S, T |-> T, res |-> "ReloObjectStillExists",
          old |-> NoSurfaceBuffer, cleared |-> <<>>]
    ELSE [S |-> [UnsetExt(S, S[s].children.val) EXCEPT
                    ![s].children = None_({}),
                    ![s].buffer = NoSurfaceBuffer,
                    ![s].frame_requests = <<>>,
                    ![s].destroyed = TRUE],
          T |-> T, res |-> "Ok", old |-> S[s].buffer, cleared |-> <<>>]

\* The timeline is cleared before the role object is looked at.
destroy(S, T, s) ==
    LET c == TimelineClear(T[s])
        T1 == [T EXCEPT ![s] = c.tl]
        cleared == IF c.cleared THEN <<c>> ELSE <<>>
    IN IF S[s].ext # "None"
       THEN [S |-> S, T |-> T1, res |-> "ReloObjectStillExists",
             old |-> NoSurfaceBuffer, cleared |-> cleared]
       ELSE [S |-> [UnsetExt(S, S[s].children.val) EXCEPT
                       ![s].children = None_({}),
                       ![s].buffer = NoSurfaceBuffer,
                       ![s].frame_requests = <<>>,
                       ![s].destroyed = TRUE],
             T |-> T1, res |-> "Ok", old |-> S[s].buffer, cleared |-> cleared]

Destroy(s) ==
    /\ Alive(s)
    /\ \E import_ok \in BOOLEAN, d \in {destroy(surf, tl, s)} :
         LET drops == DropOutcomes(
                        IF d.old.buffer # 0
                        THEN <<[surface |-> s, sb |-> d.old]>> ELSE <<>>,
                        render_ctx, import_ok, destroyed)
         IN /\ tl' = d.T
            /\ surf' = d.S
            /\ err' = IF d.res = "Ok" THEN "None" ELSE d.res
            /\ cnt' = Counted(cnt, drops, <<>>, d.cleared)
            /\ surfaces_by_xwayland_serial' =
                  IF d.res = "Ok" /\ surf[s].xwayland_serial.set
                  THEN SerialRemove(surfaces_by_xwayland_serial,
                                    surf[s].xwayland_serial.val)
                  ELSE surfaces_by_xwayland_serial
            /\ last' = [op |-> "destroy", s |-> s, res |-> d.res,
                        verify |-> "Ok", outcome |-> "none",
                        drops |-> drops, notes |-> <<>>,
                        applied |-> <<>>, cleared |-> d.cleared,
                        arg |-> <<>>, replaced |-> <<>>, fb |-> <<>>,
                        found |-> <<>>, presents |-> <<>>,
                        rect |-> <<>>]
    /\ UNCHANGED <<xorg, position, sub, destroyed, render_ctx, ncommits, applied>>

\* BufferResv::set_sync_file (lines 203-207): a renderer leaves a release
\* fence on the committed buffer.
SetSyncFile(s, user) ==
    /\ Alive(s)
    /\ surf[s].buffer.buffer # 0
    /\ user \notin surf[s].buffer.sync_files
    /\ surf' = [surf EXCEPT ![s].buffer.sync_files = @ \cup {user}]
    /\ last' = [NoStep EXCEPT !.op = "request"]
    /\ UNCHANGED <<xorg, position, sub, tl, destroyed, render_ctx, err, ncommits, applied, cnt,
                   surfaces_by_xwayland_serial>>

\* wl_buffer.destroy by the client
DestroyBuffer(b) ==
    /\ err = "None"
    /\ b \notin destroyed
    /\ destroyed' = destroyed \cup {b}
    /\ last' = [NoStep EXCEPT !.op = "request"]
    /\ UNCHANGED <<surf, xorg, position, sub, tl, render_ctx, err, ncommits, applied, cnt,
                   surfaces_by_xwayland_serial>>

\* The render context is torn down or set up again.
SetRenderCtx(c) ==
    /\ err = "None"
    /\ render_ctx # c
    /\ render_ctx' = c
    /\ last' = [NoStep EXCEPT !.op = "request"]
    /\ UNCHANGED <<surf, xorg, position, sub, tl, destroyed, err, ncommits, applied, cnt,
                   surfaces_by_xwayland_serial>>

\* enum SurfaceRole (lines 102-111)
SurfaceRoles ==
    {"None", "Subsurface", "XdgSurface", "Cursor", "DndIcon",
     "ZwlrLayerSurface", "XSurface", "ExtSessionLockSurface"}

\* a role replaces the one the surface has
SetRoleOverwrites(sf, role) == [sf |-> [sf EXCEPT !.role = role], res |-> "Ok"]

\* WlSurface::set_role (lines 681-696)
set_role(sf, role) ==
    IF sf.role = "None" \/ sf.role = role
    THEN [sf |-> [sf EXCEPT !.role = role], res |-> "Ok"]
    ELSE [sf |-> sf, res |-> "IncompatibleRole"]

\* A role object is requested for surface s: the constructor of the role
\* object calls set_role and the request fails with its error.
SetRole(s, role) ==
    /\ Alive(s)
    /\ \E r \in {set_role(surf[s], role)} :
         /\ surf' = [surf EXCEPT ![s] = r.sf]
         /\ err' = IF r.res = "Ok" THEN "None" ELSE r.res
         /\ last' = [NoStep EXCEPT !.op = "set_role", !.s = s, !.res = r.res,
                                   !.arg = <<role>>]
    /\ UNCHANGED <<xorg, position, sub, tl, destroyed, render_ctx, ncommits, applied, cnt,
                   surfaces_by_xwayland_serial>>

\* the offset is added to the pending one
OffsetAdds(s, x, y) ==
    /\ Alive(s)
    /\ surf[s].version >= 5
    /\ surf' = [surf EXCEPT ![s].pending.offset = MergeOffset(@, <<x, y>>)]
    /\ last' = [NoStep EXCEPT !.op = "offset", !.s = s, !.arg = <<x, y>>,
                              !.replaced = surf[s].pending.offset]
    /\ UNCHANGED <<xorg, position, sub, tl, destroyed, render_ctx, err, ncommits, applied, cnt,
                   surfaces_by_xwayland_serial>>

\* wl_surface.offset (lines 1111-1115), dispatched since version 5 (line 1302)
Offset(s, x, y) ==
    /\ Alive(s)
    /\ surf[s].version >= 5
    /\ surf' = [surf EXCEPT ![s].pending.offset = <<x, y>>]
    /\ last' = [NoStep EXCEPT !.op = "offset", !.s = s, !.arg = <<x, y>>,
                              !.replaced = surf[s].pending.offset]
    /\ UNCHANGED <<xorg, position, sub, tl, destroyed, render_ctx, err, ncommits, applied, cnt,
                   surfaces_by_xwayland_serial>>

\* set_buffer_scale without the check of the scale
SetBufferScaleAcceptsAny(s, scale) ==
    /\ Alive(s)
    /\ surf[s].version >= 3
    /\ surf' = [surf EXCEPT ![s].pending.scale = Some_(scale)]
    /\ err' = "None"
    /\ last' = [NoStep EXCEPT !.op = "set_buffer_scale", !.s = s,
                              !.arg = <<scale>>]
    /\ UNCHANGED <<xorg, position, sub, tl, destroyed, render_ctx, ncommits, applied, cnt,
                   surfaces_by_xwayland_serial>>

\* wl_surface.set_buffer_scale (lines 1096-1103)
SetBufferScale(s, scale) ==
    /\ Alive(s)
    /\ surf[s].version >= 3
    /\ LET res == IF scale < 1 THEN "NonPositiveBufferScale" ELSE "Ok"
       IN /\ surf' = IF res = "Ok"
                     THEN [surf EXCEPT ![s].pending.scale = Some_(scale)]
                     ELSE surf
          /\ err' = IF res = "Ok" THEN "None" ELSE res
          /\ last' = [NoStep EXCEPT !.op = "set_buffer_scale", !.s = s,
                                    !.res = res, !.arg = <<scale>>]
    /\ UNCHANGED <<xorg, position, sub, tl, destroyed, render_ctx, ncommits, applied, cnt,
                   surfaces_by_xwayland_serial>>

\* wl_surface.set_buffer_transform (lines 1087-1094)
SetBufferTransform(s, t) ==
    /\ Alive(s)
    /\ surf[s].version >= 2
    /\ LET res == IF t \in Transforms THEN "Ok" ELSE "UnknownBufferTransform"
       IN /\ surf' = IF res = "Ok"
                     THEN [surf EXCEPT ![s].pending.transform = Some_(t)]
                     ELSE surf
          /\ err' = IF res = "Ok" THEN "None" ELSE res
          /\ last' = [NoStep EXCEPT !.op = "set_buffer_transform", !.s = s,
                                    !.res = res, !.arg = <<t>>]
    /\ UNCHANGED <<xorg, position, sub, tl, destroyed, render_ctx, ncommits, applied, cnt,
                   surfaces_by_xwayland_serial>>

\* wp_viewport.set_source: the source rectangle <<x, y, width, height>> in
\* Fixed, or the rectangle is unset (`rect.set` is FALSE).
SetSource(s, rect) ==
    /\ Alive(s)
    /\ surf' = [surf EXCEPT ![s].pending.src_rect = Some_(rect)]
    /\ last' = [NoStep EXCEPT !.op = "set_source", !.s = s, !.arg = <<rect>>]
    /\ UNCHANGED <<xorg, position, sub, tl, destroyed, render_ctx, err, ncommits, applied, cnt,
                   surfaces_by_xwayland_serial>>

\* wp_viewport.set_destination: the destination size, or it is unset.
SetDestination(s, size) ==
    /\ Alive(s)
    /\ surf' = [surf EXCEPT ![s].pending.dst_size = Some_(size)]
    /\ last' = [NoStep EXCEPT !.op = "set_destination", !.s = s,
                              !.arg = <<size>>]
    /\ UNCHANGED <<xorg, position, sub, tl, destroyed, render_ctx, err, ncommits, applied, cnt,
                   surfaces_by_xwayland_serial>>

\* wl_surface.frame (lines 814-821): the new wl_callback is pushed.
Frame(s) ==
    /\ Alive(s)
    /\ cnt.objects < MaxObjects
    /\ surf' = [surf EXCEPT
                  ![s].pending.frame_request = Append(@, cnt.objects + 1)]
    /\ cnt' = [cnt EXCEPT !.objects = @ + 1]
    /\ last' = [NoStep EXCEPT !.op = "frame", !.s = s,
                              !.arg = <<cnt.objects + 1>>]
    /\ UNCHANGED <<xorg, position, sub, tl, destroyed, render_ctx, err, ncommits, applied,
                   surfaces_by_xwayland_serial>>

\* wp_presentation.feedback: WlSurface::add_presentation_feedback
\* (lines 601-606) pushes the new feedback object.
AddPresentationFeedback(s) ==
    /\ Alive(s)
    /\ cnt.objects < MaxObjects
    /\ surf' = [surf EXCEPT
                  ![s].pending.presentation_feedback = Append(@, cnt.objects + 1)]
    /\ cnt' = [cnt EXCEPT !.objects = @ + 1]
    /\ last' = [NoStep EXCEPT !.op = "feedback", !.s = s,
                              !.arg = <<cnt.objects + 1>>]
    /\ UNCHANGED <<xorg, position, sub, tl, destroyed, render_ctx, err, ncommits, applied,
                   surfaces_by_xwayland_serial>>

\* PendingState::merge (lines 385-458) applied to the delta the parent
\* holds for subsurface c (self) and the pending state of c (next).
Merge(c) ==
    /\ Alive(c)
    /\ ncommits < MaxCommits
    /\ c \in DOMAIN sub
    /\ c \in DOMAIN surf[sub[c].parent].pending.subsurfaces
    /\ \E m \in {merge(surf[sub[c].parent].pending.subsurfaces[c],
                        surf[c].pending, destroyed)} :
         /\ surf' = [surf EXCEPT
                       ![sub[c].parent].pending.subsurfaces[c] = m.state,
                       ![c].pending = MergeRest(surf[c].pending)]
         /\ cnt' = Counted(cnt, <<>>, m.notes, <<>>)
         /\ last' = [NoStep EXCEPT !.op = "merge", !.s = c,
                                   !.outcome = "buffered",
                                   !.notes = m.notes, !.fb = m.fb]
    /\ ncommits' = ncommits + 1
    /\ UNCHANGED <<xorg, position, sub, tl, destroyed, render_ctx, err, applied,
                   surfaces_by_xwayland_serial>>

\* --------------------------------------------------------- specifications
\* Spec: two independent surfaces.  Surface 1 may carry an explicit-sync
\* object and commit buffers with acquire and release points; surface 2
\* commits without explicit sync.
Next ==
    \/ \E b \in {0, 1} : Attach(1, b, 0, 0)
    \/ Attach(2, 2, 0, 0)
    \/ GetSyncObjSurface(1)
    \/ \E pt \in AcquirePoints : SetAcquirePoint(1, pt)
    \/ \E pt \in {1} : SetReleasePoint(1, pt)
    \/ \E s \in DOMAIN surf : Commit(s)
    \/ FenceSignal(1)
    \/ ResumeCommit(1)
    \/ \E s \in DOMAIN surf : Destroy(s)

Spec == InitFlat /\ [][Next]_vars

\* SpecLive: one surface with explicit sync.  The task that waits for the
\* acquire fence is scheduled once the fence is ready (weak fairness): the
\* cooperative scheduler runs every runnable task.
InitLive ==
    /\ surf = [s \in {1} |-> NewSurface(6)]
    /\ sub = EmptyMap
    /\ tl = [s \in {1} |-> IdleTimeline]
    /\ destroyed = {}
    /\ render_ctx = TRUE
    /\ err = "None"
    /\ ncommits = 0
    /\ applied = [s \in {1} |-> <<>>]
    /\ cnt = NoCount
    /\ surfaces_by_xwayland_serial = {}
    /\ position = XdgPositioned
    /\ xorg = NoOutput
    /\ last = NoStep

NextLive ==
    \/ \E b \in {0, 1} : Attach(1, b, 0, 0)
    \/ GetSyncObjSurface(1)
    \/ \E pt \in AcquirePoints : SetAcquirePoint(1, pt)
    \/ \E pt \in ReleasePoints : SetReleasePoint(1, pt)
    \/ Commit(1)
    \/ FenceSignal(1)
    \/ ResumeCommit(1)
    \/ Destroy(1)

SpecLive == InitLive /\ [][NextLive]_vars /\ WF_vars(ResumeCommit(1))

\* SpecRelease: one surface that commits dma-buf and shm buffers with and
\* without explicit sync, while renderers leave release fences on the
\* committed buffer, the client destroys buffers and the render context
\* comes and goes.
MaxReleaseCommits == 2

InitRelease ==
    /\ surf = [s \in {1} |-> NewSurface(6)]
    /\ sub = EmptyMap
    /\ tl = [s \in {1} |-> IdleTimeline]
    /\ destroyed = {}
    /\ render_ctx = TRUE
    /\ err = "None"
    /\ ncommits = 0
    /\ applied = [s \in {1} |-> <<>>]
    /\ cnt = NoCount
    /\ surfaces_by_xwayland_serial = {}
    /\ position = XdgPositioned
    /\ xorg = NoOutput
    /\ last = NoStep

NextRelease ==
    \/ \E b \in Buffers : Attach(1, b, 0, 0)
    \/ GetSyncObjSurface(1)
    \/ \E pt \in AcquirePoints : SetAcquirePoint(1, pt)
    \/ \E pt \in {1} : SetReleasePoint(1, pt)
    \/ ncommits < MaxReleaseCommits /\ Commit(1)
    \/ FenceSignal(1)
    \/ ResumeCommit(1)
    \/ Destroy(1)
    \/ \E user \in ResvUsers : SetSyncFile(1, user)
    \/ \E b \in Buffers : DestroyBuffer(b)
    \/ \E c \in BOOLEAN : SetRenderCtx(c)

SpecRelease == InitRelease /\ [][NextRelease]_vars

\* SpecMerge: surface 2 is a subsurface of surface 1, synchronized or
\* desynchronized, and may carry an explicit-sync object; the client sets the
\* acquire point after attaching and the release point after the acquire
\* point.  The client may destroy the dma-buf buffer and the render context
\* may be torn down.
Subsurface(parent, sync) == [parent |-> parent, sync |-> sync, x |-> 0, y |-> 0]

InitMerge ==
    /\ \E sync2 \in BOOLEAN : sub = [c \in {2} |-> Subsurface(1, sync2)]
    /\ surf = [s \in {1, 2} |->
                 [NewSurface(6) EXCEPT
                    !.role = IF s = 1 THEN "None" ELSE "Subsurface",
                    !.ext = IF s = 1 THEN "None" ELSE "Subsurface",
                    !.children = IF s = 1 THEN Some_({2}) ELSE None_({})]]
    /\ tl = [s \in {1, 2} |-> IdleTimeline]
    /\ destroyed = {}
    /\ render_ctx = TRUE
    /\ err = "None"
    /\ ncommits = 0
    /\ applied = [s \in {1, 2} |-> <<>>]
    /\ cnt = NoCount
    /\ surfaces_by_xwayland_serial = {}
    /\ position = XdgPositioned
    /\ xorg = NoOutput
    /\ last = NoStep

NextMerge ==
    \/ \E b \in Buffers : Attach(2, b, 0, 0)
    \/ GetSyncObjSurface(2)
    \/ \E pt \in AcquirePoints : NewBuffer(2) /\ SetAcquirePoint(2, pt)
    \/ \E pt \in ReleasePoints :
         surf[2].pending.acquire_point # 0 /\ SetReleasePoint(2, pt)
    \/ \E s \in DOMAIN surf : Commit(s)
    \/ FenceSignal(2)
    \/ ResumeCommit(2)
    \/ \E s \in DOMAIN surf : Destroy(s)
    \/ DestroyBuffer(1)
    \/ SetRenderCtx(FALSE)

SpecMerge == InitMerge /\ [][NextMerge]_vars

\* SpecTree: the surface tree 1 <- 2 <- 3 of subsurfaces, each synchronized
\* or desynchronized.
InitTree ==
    /\ \E sync2, sync3 \in BOOLEAN :
         sub = [c \in {2, 3} |-> IF c = 2 THEN Subsurface(1, sync2)
                                          ELSE Subsurface(2, sync3)]
    /\ surf = [s \in Surf |->
                 [NewSurface(6) EXCEPT
                    !.role = IF s = 1 THEN "None" ELSE "Subsurface",
                    !.ext = IF s = 1 THEN "None" ELSE "Subsurface",
                    !.children = IF s = 3 THEN None_({}) ELSE Some_({s + 1})]]
    /\ tl = [s \in Surf |-> IdleTimeline]
    /\ destroyed = {}
    /\ render_ctx = TRUE
    /\ err = "None"
    /\ ncommits = 0
    /\ applied = [s \in Surf |-> <<>>]
    /\ cnt = NoCount
    /\ surfaces_by_xwayland_serial = {}
    /\ position = XdgPositioned
    /\ xorg = NoOutput
    /\ last = NoStep

NextTree ==
    \/ Attach(1, 1, 0, 0)
    \/ Attach(2, 2, 0, 0)
    \/ \E b \in Buffers : Attach(3, b, 0, 0)
    \/ \E s \in DOMAIN surf : Commit(s)
    \/ \E s \in DOMAIN surf : Destroy(s)

SpecTree == InitTree /\ [][NextTree]_vars

\* SpecOffset: one surface of version 4 (attach carries the offset) or of
\* version 6 (wl_surface.offset carries it) that is given roles, records
\* offsets and commits.
OffsetArgs == {<<0, 0>>, <<1, 1>>, <<3, 4>>}

InitOffset ==
    /\ \E version \in {4, 5, 6} : surf = [s \in {1} |-> NewSurface(version)]
    /\ sub = EmptyMap
    /\ tl = [s \in {1} |-> IdleTimeline]
    /\ destroyed = {}
    /\ render_ctx = TRUE
    /\ err = "None"
    /\ ncommits = 0
    /\ applied = [s \in {1} |-> <<>>]
    /\ cnt = NoCount
    /\ surfaces_by_xwayland_serial = {}
    /\ position = XdgPositioned
    /\ xorg = NoOutput
    /\ last = NoStep

NextOffset ==
    \/ \E role \in {"None", "XdgSurface", "Cursor"} : SetRole(1, role)
    \/ \E b \in {0, 1}, o \in OffsetArgs : Attach(1, b, o[1], o[2])
    \/ \E o \in OffsetArgs : Offset(1, o[1], o[2])
    \/ Commit(1)

SpecOffset == InitOffset /\ [][NextOffset]_vars

\* SpecView: one surface with a viewport.  The client attaches buffers of
\* 4x2 and 2x2 pixels, sets buffer scale and transform, a source rectangle
\* of 1.5x2 or 3x2 and a destination size, and commits.  The requests of one
\* cycle set different fields of the pending state, so the client issues
\* them in one order: attach, scale, transform, source, destination.
MaxViewCommits == 2

SrcRects == {<<0, 0, (3 * FixedOne) \div 2, 2 * FixedOne>>,
             <<0, 0, 3 * FixedOne, 2 * FixedOne>>}
DstSizes == {<<1, 1>>}

InitView ==
    /\ surf = [s \in {1} |-> NewSurface(6)]
    /\ sub = EmptyMap
    /\ tl = [s \in {1} |-> IdleTimeline]
    /\ destroyed = {}
    /\ render_ctx = TRUE
    /\ err = "None"
    /\ ncommits = 0
    /\ applied = [s \in {1} |-> <<>>]
    /\ cnt = NoCount
    /\ surfaces_by_xwayland_serial = {}
    /\ position = XdgPositioned
    /\ xorg = NoOutput
    /\ last = NoStep

ViewOrder ==
    [op \in {"init", "commit", "attach", "set_buffer_scale",
             "set_buffer_transform", "set_source", "set_destination"} |->
       CASE op = "attach" -> 1
         [] op = "set_buffer_scale" -> 2
         [] op = "set_buffer_transform" -> 3
         [] op = "set_source" -> 4
         [] op = "set_destination" -> 5
         [] OTHER -> 0]

NextView ==
    \/ \E b \in {0} \cup Buffers : ViewOrder[last.op] < 1 /\ Attach(1, b, 0, 0)
    \/ \E scale \in {1, 2} : ViewOrder[last.op] < 2 /\ SetBufferScale(1, scale)
    \/ \E t \in {"None", "Rotate90"} :
         ViewOrder[last.op] < 3 /\ SetBufferTransform(1, t)
    \/ \E r \in SrcRects : ViewOrder[last.op] < 4 /\ SetSource(1, Some_(r))
    \/ ViewOrder[last.op] < 4 /\ SetSource(1, None_(<<0, 0, 0, 0>>))
    \/ \E d \in DstSizes : ViewOrder[last.op] < 5 /\ SetDestination(1, Some_(d))
    \/ ViewOrder[last.op] < 5 /\ SetDestination(1, None_(<<0, 0>>))
    \/ ncommits < MaxViewCommits /\ Commit(1)

SpecView == InitView /\ [][NextView]_vars

\* SpecNest: the tree 1 <- 2 <- 3 of synchronized subsurfaces.  Surface 3
\* attaches a buffer and sets a source rectangle of fractional or integer
\* width, surfaces 1 and 2 set their buffer scale, and all commit.
InitNest ==
    /\ sub = [c \in {2, 3} |-> Subsurface(c - 1, TRUE)]
    /\ surf = [s \in Surf |->
                 [NewSurface(6) EXCEPT
                    !.role = IF s = 1 THEN "None" ELSE "Subsurface",
                    !.ext = IF s = 1 THEN "None" ELSE "Subsurface",
                    !.children = IF s = 3 THEN None_({}) ELSE Some_({s + 1})]]
    /\ tl = [s \in Surf |-> IdleTimeline]
    /\ destroyed = {}
    /\ render_ctx = TRUE
    /\ err = "None"
    /\ ncommits = 0
    /\ applied = [s \in Surf |-> <<>>]
    /\ cnt = NoCount
    /\ surfaces_by_xwayland_serial = {}
    /\ position = XdgPositioned
    /\ xorg = NoOutput
    /\ last = NoStep

NextNest ==
    \/ Attach(3, 2, 0, 0)
    \/ \E r \in SrcRects : SetSource(3, Some_(r))
    \/ \E s \in {1, 2} : SetBufferScale(s, 2)
    \/ \E s \in DOMAIN surf : Commit(s)

SpecNest == InitNest /\ [][NextNest]_vars

\* wl_subsurface.destroy: the role object of subsurface c goes away.  The
\* extension of the surface is unset (WlSurface::unset_ext), the surface
\* leaves its parent's children and the delta buffered for it in the
\* parent's pending state is consumed (consume_pending_child).  A delta the
\* parent has already handed to its commit timeline is out of reach.
SubsurfaceDestroy(c) ==
    /\ Alive(c)
    /\ c \in DOMAIN sub
    /\ surf[c].ext = "Subsurface"
    /\ LET par == sub[c].parent
           subs == surf[par].pending.subsurfaces
       IN surf' = [surf EXCEPT
                     ![c].ext = "None",
                     ![par].children =
                        IF @.set THEN Some_(@.val \ {c}) ELSE @,
                     ![par].pending.subsurfaces =
                        [i \in DOMAIN subs \ {c} |-> subs[i]]]
    /\ last' = [NoStep EXCEPT !.op = "subsurface_destroy", !.s = c]
    /\ UNCHANGED <<xorg, position, sub, tl, destroyed, render_ctx, err, ncommits, applied, cnt,
                   surfaces_by_xwayland_serial>>

\* SpecGone: the tree 1 <- 2 <- 3 of synchronized subsurfaces, surface 1
\* with explicit sync.  Surfaces 2 and 3 set their buffer scale and commit,
\* surface 1 commits a buffer behind an acquire fence; the client destroys
\* the subsurface role of 2 and then surface 2 before the fence is
\* signalled and the held delta, with the deltas of 2 and 3 in it, is
\* applied.
InitGone ==
    /\ sub = [c \in {2, 3} |-> Subsurface(c - 1, TRUE)]
    /\ surf = [s \in Surf |->
                 [NewSurface(6) EXCEPT
                    !.role = IF s = 1 THEN "None" ELSE "Subsurface",
                    !.ext = IF s = 1 THEN "None" ELSE "Subsurface",
                    !.children = IF s = 3 THEN None_({}) ELSE Some_({s + 1}),
                    !.sync_obj_surface = (s = 1)]]
    /\ tl = [s \in Surf |-> IdleTimeline]
    /\ destroyed = {}
    /\ render_ctx = TRUE
    /\ err = "None"
    /\ ncommits = 0
    /\ applied = [s \in Surf |-> <<>>]
    /\ cnt = NoCount
    /\ surfaces_by_xwayland_serial = {}
    /\ position = XdgPositioned
    /\ xorg = NoOutput
    /\ last = NoStep

NextGone ==
    \/ Attach(1, 1, 0, 0)
    \/ SetAcquirePoint(1, 1)
    \/ SetReleasePoint(1, 1)
    \/ \E s \in {2, 3} : SetBufferScale(s, 2)
    \/ \E s \in DOMAIN surf : Commit(s)
    \/ FenceSignal(1)
    \/ ResumeCommit(1)
    \/ SubsurfaceDestroy(2)
    \/ Destroy(2)

SpecGone == InitGone /\ [][NextGone]_vars

\* SpecScale: surface 2 is a synchronized subsurface of surface 1.  The
\* client requests buffer scales below and above 1 on both, attaches a
\* buffer to surface 1 and commits.
ScaleArgs == {-1, 0, 1, 2, 3}

InitScale ==
    /\ sub = [c \in {2} |-> Subsurface(1, TRUE)]
    /\ surf = [s \in {1, 2} |->
                 [NewSurface(6) EXCEPT
                    !.role = IF s = 1 THEN "None" ELSE "Subsurface",
                    !.ext = IF s = 1 THEN "None" ELSE "Subsurface",
                    !.children = IF s = 1 THEN Some_({2}) ELSE None_({})]]
    /\ tl = [s \in {1, 2} |-> IdleTimeline]
    /\ destroyed = {}
    /\ render_ctx = TRUE
    /\ err = "None"
    /\ ncommits = 0
    /\ applied = [s \in {1, 2} |-> <<>>]
    /\ cnt = NoCount
    /\ surfaces_by_xwayland_serial = {}
    /\ position = XdgPositioned
    /\ xorg = NoOutput
    /\ last = NoStep

NextScale ==
    \/ Attach(1, 1, 0, 0)
    \/ \E s \in DOMAIN surf, k \in ScaleArgs : SetBufferScale(s, k)
    \/ \E s \in DOMAIN surf : Commit(s)

SpecScale == InitScale /\ [][NextScale]_vars

\* SpecDelta: PendingState::merge on the deltas of one surface.  Surface 2
\* is a synchronized subsurface of surface 1; the parent's pending state
\* holds an older delta of the subsurface and the subsurface's pending state
\* is the newer one.  Earlier requests have set, in each delta, a set of the
\* optional fields (to values that differ between the two deltas), or an
\* offset and presentation feedbacks.  The deltas are merged; the client
\* records a further offset or feedback and they are merged again.
OptFields ==
    {"opaque_region", "input_region", "src_rect", "dst_size", "scale",
     "transform", "tearing", "content_type", "xwayland_serial"}

\* The value the k-th delta sets field f to.
FieldValue(f, k) ==
    CASE f = "src_rect" -> Some_(<<0, 0, k * FixedOne, k * FixedOne>>)
      [] f = "dst_size" -> Some_(<<k, k>>)
      [] f = "transform" -> IF k = 1 THEN "Rotate90" ELSE "Rotate180"
      [] f = "tearing" -> k = 1
      [] OTHER -> k

FieldSets ==
    {{}, OptFields} \cup {{f} : f \in OptFields}
                   \cup {OptFields \ {f} : f \in OptFields}

DeltaWith(fs, k) ==
    [f \in DOMAIN DefaultPendingState |->
       IF f \in fs THEN Some_(FieldValue(f, k)) ELSE DefaultPendingState[f]]

\* The deltas that set optional fields, and those that record an offset and
\* presentation feedbacks (the objects 1 and 2 in the older delta, 3 in the
\* newer).
FieldDeltas(k) == {DeltaWith(fs, k) : fs \in FieldSets}
ListDeltas(k) ==
    {[DefaultPendingState EXCEPT !.offset = o, !.presentation_feedback = fb] :
       o \in OffsetArgs,
       fb \in IF k = 1 THEN {<<>>, <<1>>, <<1, 2>>} ELSE {<<>>, <<3>>}}

InitDelta ==
    /\ sub = [c \in {2} |-> Subsurface(1, TRUE)]
    /\ \E older \in FieldDeltas(1) \cup ListDeltas(1),
          newer \in FieldDeltas(2) \cup ListDeltas(2) :
         /\ older \in FieldDeltas(1) <=> newer \in FieldDeltas(2)
         /\ surf = [s \in {1, 2} |->
                      [NewSurface(6) EXCEPT
                         !.role = IF s = 1 THEN "None" ELSE "Subsurface",
                         !.ext = IF s = 1 THEN "None" ELSE "Subsurface",
                         !.children = IF s = 1 THEN Some_({2}) ELSE None_({}),
                         !.pending =
                            IF s = 1
                            THEN [DefaultPendingState EXCEPT
                                    !.subsurfaces = [c \in {2} |-> older]]
                            ELSE newer]]
    /\ tl = [s \in {1, 2} |-> IdleTimeline]
    /\ destroyed = {}
    /\ render_ctx = TRUE
    /\ err = "None"
    /\ ncommits = 0
    /\ applied = [s \in {1, 2} |-> <<>>]
    /\ cnt = [NoCount EXCEPT !.objects = MaxObjects]
    /\ surfaces_by_xwayland_serial = {}
    /\ position = XdgPositioned
    /\ xorg = NoOutput
    /\ last = NoStep

NextDelta ==
    \/ Merge(2)
    \/ \E o \in OffsetArgs \ {<<0, 0>>} :
         (last.op = "merge" /\ ncommits < MaxCommits) /\ Offset(2, o[1], o[2])

SpecDelta == InitDelta /\ [][NextDelta]_vars

\* wl_surface.set_opaque_region / set_input_region (lines 823-843); the
\* region 0 is the null region, the others exist.
SetOpaqueRegion(s, region) ==
    /\ Alive(s)
    /\ surf' = [surf EXCEPT ![s].pending.opaque_region = Some_(region)]
    /\ last' = [NoStep EXCEPT !.op = "set_opaque_region", !.s = s,
                              !.arg = <<region>>]
    /\ UNCHANGED <<xorg, position, sub, tl, destroyed, render_ctx, err, ncommits, applied, cnt,
                   surfaces_by_xwayland_serial>>

SetInputRegion(s, region) ==
    /\ Alive(s)
    /\ surf' = [surf EXCEPT ![s].pending.input_region = Some_(region)]
    /\ last' = [NoStep EXCEPT !.op = "set_input_region", !.s = s,
                              !.arg = <<region>>]
    /\ UNCHANGED <<xorg, position, sub, tl, destroyed, render_ctx, err, ncommits, applied, cnt,
                   surfaces_by_xwayland_serial>>

\* WlSurface::set_content_type (lines 1248-1250); 0 is "no content type".
SetContentType(s, content_type) ==
    /\ Alive(s)
    /\ surf' = [surf EXCEPT ![s].pending.content_type = Some_(content_type)]
    /\ last' = [NoStep EXCEPT !.op = "set_content_type", !.s = s,
                              !.arg = <<content_type>>]
    /\ UNCHANGED <<xorg, position, sub, tl, destroyed, render_ctx, err, ncommits, applied, cnt,
                   surfaces_by_xwayland_serial>>

\* wp_tearing_control_v1.set_presentation_hint and
\* xwayland_surface_v1.set_serial store into the pending state.
SetTearing(s, tearing) ==
    /\ Alive(s)
    /\ surf' = [surf EXCEPT ![s].pending.tearing = Some_(tearing)]
    /\ last' = [NoStep EXCEPT !.op = "set_tearing", !.s = s,
                              !.arg = <<tearing>>]
    /\ UNCHANGED <<xorg, position, sub, tl, destroyed, render_ctx, err, ncommits, applied, cnt,
                   surfaces_by_xwayland_serial>>

SetXwaylandSerial(s, serial) ==
    /\ Alive(s)
    /\ surf' = [surf EXCEPT ![s].pending.xwayland_serial = Some_(serial)]
    /\ last' = [NoStep EXCEPT !.op = "set_serial", !.s = s, !.arg = <<serial>>]
    /\ UNCHANGED <<xorg, position, sub, tl, destroyed, render_ctx, err, ncommits, applied, cnt,
                   surfaces_by_xwayland_serial>>

\* SpecField: one surface.  Before the first commit the client's requests
\* have set a set of the optional fields, each to its first value, and may
\* have attached the dma-buf buffer.  After it the client attaches the shm
\* buffer or the null buffer and sets fields again, the regions, the
\* viewport and the content type to none and the others to a second value,
\* each request at most once per commit and in the order of FieldOrder.
MaxFieldCommits == 2

FieldOrder ==
    [op \in {"init", "commit", "attach", "set_buffer_scale",
             "set_buffer_transform", "set_source", "set_destination",
             "set_opaque_region", "set_input_region", "set_content_type",
             "set_tearing", "set_serial"} |->
       CASE op = "attach" -> 1
         [] op = "set_buffer_scale" -> 2
         [] op = "set_buffer_transform" -> 3
         [] op = "set_source" -> 4
         [] op = "set_destination" -> 5
         [] op = "set_opaque_region" -> 6
         [] op = "set_input_region" -> 7
         [] op = "set_content_type" -> 8
         [] op = "set_tearing" -> 9
         [] op = "set_serial" -> 10
         [] OTHER -> 0]

InitField ==
    /\ \E first \in FieldDeltas(1), b \in {None_(0), Some_(1)} :
         surf = [s \in {1} |->
                   [NewSurface(6) EXCEPT
                      !.pending = [first EXCEPT !.buffer = b]]]
    /\ sub = EmptyMap
    /\ tl = [s \in {1} |-> IdleTimeline]
    /\ destroyed = {}
    /\ render_ctx = TRUE
    /\ err = "None"
    /\ ncommits = 0
    /\ applied = [s \in {1} |-> <<>>]
    /\ cnt = NoCount
    /\ surfaces_by_xwayland_serial = {}
    /\ position = XdgPositioned
    /\ xorg = NoOutput
    /\ last = NoStep

NextField ==
    \/ ncommits < MaxFieldCommits /\ Commit(1)
    \/ /\ ncommits >= 1 /\ ncommits < MaxFieldCommits
       /\ \/ \E b \in {0, 2} : FieldOrder[last.op] < 1 /\ Attach(1, b, 0, 0)
          \/ FieldOrder[last.op] < 2 /\ SetBufferScale(1, 2)
          \/ FieldOrder[last.op] < 3 /\ SetBufferTransform(1, "Rotate180")
          \/ FieldOrder[last.op] < 4 /\ SetSource(1, None_(<<0, 0, 0, 0>>))
          \/ FieldOrder[last.op] < 5 /\ SetDestination(1, None_(<<0, 0>>))
          \/ FieldOrder[last.op] < 6 /\ SetOpaqueRegion(1, 0)
          \/ FieldOrder[last.op] < 7 /\ SetInputRegion(1, 0)
          \/ FieldOrder[last.op] < 8 /\ SetContentType(1, 0)
          \/ FieldOrder[last.op] < 9 /\ SetTearing(1, FALSE)
          \/ FieldOrder[last.op] < 10 /\ SetXwaylandSerial(1, 2)

SpecField == InitField /\ [][NextField]_vars

\* SpecExtents: the surfaces 2 and 3 are subsurfaces of surface 1, surface
\* 2 synchronized or not, at positions that wl_subsurface.set_position and
\* a commit of the parent have set.  The client attaches buffers of 4x2
\* and 2x2 or the null buffer and commits.
SubsurfaceAt(parent, sync, pos) ==
    [parent |-> parent, sync |-> sync, x |-> pos[1], y |-> pos[2]]

InitExtents ==
    /\ \E sync2 \in BOOLEAN, pos2 \in {<<0, 0>>, <<3, 1>>} :
         sub = [c \in {2, 3} |->
                  IF c = 2 THEN SubsurfaceAt(1, sync2, pos2)
                  ELSE SubsurfaceAt(1, FALSE, <<-2, -1>>)]
    /\ surf = [s \in Surf |->
                 [NewSurface(6) EXCEPT
                    !.role = IF s = 1 THEN "None" ELSE "Subsurface",
                    !.ext = IF s = 1 THEN "None" ELSE "Subsurface",
                    !.children = IF s = 1 THEN Some_({2, 3}) ELSE None_({})]]
    /\ tl = [s \in Surf |-> IdleTimeline]
    /\ destroyed = {}
    /\ render_ctx = TRUE
    /\ err = "None"
    /\ ncommits = 0
    /\ applied = [s \in Surf |-> <<>>]
    /\ cnt = NoCount
    /\ surfaces_by_xwayland_serial = {}
    /\ position = XdgPositioned
    /\ xorg = NoOutput
    /\ last = NoStep

NextExtents ==
    \/ \E b \in {0} \cup Buffers : Attach(1, b, 0, 0)
    \/ \E b \in Buffers : Attach(2, b, 0, 0)
    \/ Attach(3, 2, 0, 0)
    \/ \E s \in DOMAIN surf : Commit(s)

SpecExtents == InitExtents /\ [][NextExtents]_vars

\* Rect::contains and Region::contains.  The region 0 is "no region", the
\* region 1 is the rectangle (0,0)-(1,2) and the region 2 is empty.
RectContains(r, x, y) == r.x1 <= x /\ x < r.x2 /\ r.y1 <= y /\ y < r.y2
RegionContains(region, x, y) ==
    region = 1 /\ RectContains(Rect(0, 0, 1, 2), x, y)

\* WlSurface::accepts_input_at (lines 1117-1128)
accepts_input_at(sf, x, y) ==
    /\ RectContains(RectAtPoint(sf.buffer_abs_pos, 0, 0), x, y)
    /\ sf.input_region # 0 => RegionContains(sf.input_region, x, y)

\* A subsurface with its stack element: the band of the parent's stack it
\* is in ("above" or "below"), its place z in that list counted from the
\* bottom, and the pending flag of the element.
StackedSubsurface(parent, pos, band, z, pending) ==
    [parent |-> parent, sync |-> TRUE, x |-> pos[1], y |-> pos[2],
     band |-> band, z |-> z, pending |-> pending]

\* WlSubsurface::position: the rectangle of the subsurface in its parent.
Position(S, ss, c) == RectAtPoint(S[c].buffer_abs_pos, ss[c].x, ss[c].y)

\* ParentData::above or ParentData::below of surface s in the order of
\* rev_iter: from the top of the list to its bottom.
RECURSIVE RevIter(_, _)
RevIter(ss, cs) ==
    IF cs = {} THEN <<>>
    ELSE LET top == CHOOSE c \in cs : \A d \in cs : ss[d].z <= ss[c].z
         IN <<top>> \o RevIter(ss, cs \ {top})
Stack(ss, s, band) ==
    RevIter(ss, {c \in DOMAIN ss : ss[c].parent = s /\ ss[c].band = band})

\* elements with the pending flag are searched like the others
RECURSIVE find_surface_at(_, _, _, _, _)
RECURSIVE SearchStackWithPending(_, _, _, _, _)
SearchStackWithPending(S, ss, stack, x, y) ==
    IF stack = <<>> THEN <<>>
    ELSE LET child == Head(stack)
             pos == Position(S, ss, child)
             res == IF RectContains(pos, x, y)
                    THEN find_surface_at(S, ss, child, x - pos.x1, y - pos.y1)
                    ELSE <<>>
         IN IF res # <<>> THEN res
            ELSE SearchStackWithPending(S, ss, Tail(stack), x, y)

\* The closure ss of find_surface_at (lines 1143-1157); <<>> is None.
RECURSIVE SearchStack(_, _, _, _, _)
SearchStack(S, ss, stack, x, y) ==
    IF stack = <<>> THEN <<>>
    ELSE LET child == Head(stack)
             pos == Position(S, ss, child)
             res == IF ~ss[child].pending /\ RectContains(pos, x, y)
                    THEN find_surface_at(S, ss, child, x - pos.x1, y - pos.y1)
                    ELSE <<>>
         IN IF res # <<>> THEN res
            ELSE SearchStack(S, ss, Tail(stack), x, y)

\* the surface itself is tried before the children above it
FindSelfFirst(S, ss, s, x, y) ==
    IF accepts_input_at(S[s], x, y) THEN <<s, x, y>>
    ELSE IF ~S[s].children.set THEN <<>>
    ELSE LET above == SearchStack(S, ss, Stack(ss, s, "above"), x, y)
         IN IF above # <<>> THEN above
            ELSE SearchStack(S, ss, Stack(ss, s, "below"), x, y)

\* WlSurface::find_surface_at (lines 1130-1167): the surface found with the
\* point in its coordinates, or <<>>.
find_surface_at(S, ss, s, x, y) ==
    IF ~S[s].children.set
    THEN IF accepts_input_at(S[s], x, y) THEN <<s, x, y>> ELSE <<>>
    ELSE LET above == SearchStack(S, ss, Stack(ss, s, "above"), x, y)
         IN IF above # <<>> THEN above
            ELSE IF accepts_input_at(S[s], x, y) THEN <<s, x, y>>
            ELSE SearchStack(S, ss, Stack(ss, s, "below"), x, y)

\* A pointer or touch position is looked up in the tree of surface s.
FindSurfaceAt(s, x, y) ==
    /\ Alive(s)
    /\ last' = [NoStep EXCEPT !.op = "find_surface_at", !.s = s,
                              !.arg = <<x, y>>,
                              !.found = find_surface_at(surf, sub, s, x, y)]
    /\ UNCHANGED <<surf, xorg, position, sub, tl, destroyed, render_ctx, err, ncommits,
                   applied, cnt, surfaces_by_xwayland_serial>>

\* SpecFind: surface 1 has the subsurfaces 2 at (1,0) and 3 at (0,1), and
\* surface 2 has the subsurface 4 at (0,0) or at (1,1).  Each subsurface
\* is above or below its parent, 2 above or below 3 in the stack, with
\* its pending flag set or not; each surface has committed a buffer of
\* 2x2 or none, the subsurfaces 3 and 4 with an input region or without.
\* One position of the grid (-1..3) x (-1..3) is looked up in surface 1.
FindPoints == {-1, 0, 1, 2, 3}
FindSurfaces == {1, 2, 3, 4}

InitFind ==
    /\ \E band \in [{2, 3, 4} -> {"above", "below"}],
          pending \in [{2, 3, 4} -> BOOLEAN],
          z2 \in {1, 3}, pos4 \in {<<0, 0>>, <<1, 1>>} :
         sub = [c \in {2, 3, 4} |->
                  StackedSubsurface(IF c = 4 THEN 2 ELSE 1,
                                    CASE c = 2 -> <<1, 0>>
                                      [] c = 3 -> <<0, 1>>
                                      [] OTHER -> pos4,
                                    band[c],
                                    IF c = 2 THEN z2 ELSE 2,
                                    pending[c])]
    /\ \E size \in [FindSurfaces -> {<<0, 0>>, <<2, 2>>}],
          region \in [{3, 4} -> {0, 1}] :
         surf = [s \in FindSurfaces |->
                   [NewSurface(6) EXCEPT
                      !.role = IF s = 1 THEN "None" ELSE "Subsurface",
                      !.ext = IF s = 1 THEN "None" ELSE "Subsurface",
                      !.children = CASE s = 1 -> Some_({2, 3})
                                     [] s = 2 -> Some_({4})
                                     [] OTHER -> None_({}),
                      !.buffer = IF size[s] = <<0, 0>> THEN NoSurfaceBuffer
                                 ELSE [NoSurfaceBuffer EXCEPT !.buffer = 2],
                      !.buffer_abs_pos = Rect(0, 0, size[s][1], size[s][2]),
                      !.input_region = IF s \in {3, 4} THEN region[s] ELSE 0]]
    /\ tl = [s \in FindSurfaces |-> IdleTimeline]
    /\ destroyed = {}
    /\ render_ctx = TRUE
    /\ err = "None"
    /\ ncommits = 0
    /\ applied = [s \in FindSurfaces |-> <<>>]
    /\ cnt = NoCount
    /\ surfaces_by_xwayland_serial = {}
    /\ position = XdgPositioned
    /\ xorg = NoOutput
    /\ last = NoStep

NextFind ==
    \E x, y \in FindPoints : last.op = "init" /\ FindSurfaceAt(1, x, y)

SpecFind == InitFind /\ [][NextFind]_vars

\* SpecSync: surface 2 is a synchronized subsurface of surface 1 and has
\* an explicit-sync object from the start, so that every commit on it is
\* validated by verify_explicit_sync.  The client attaches buffers or the
\* null buffer, sets the acquire and the release point and commits; the
\* deltas of surface 2 are merged in the parent until surface 1 commits.
InitSync ==
    /\ sub = [c \in {2} |-> Subsurface(1, TRUE)]
    /\ surf = [s \in {1, 2} |->
                 [NewSurface(6) EXCEPT
                    !.role = IF s = 1 THEN "None" ELSE "Subsurface",
                    !.ext = IF s = 1 THEN "None" ELSE "Subsurface",
                    !.children = IF s = 1 THEN Some_({2}) ELSE None_({}),
                    !.sync_obj_surface = (s = 2)]]
    /\ tl = [s \in {1, 2} |-> IdleTimeline]
    /\ destroyed = {}
    /\ render_ctx = TRUE
    /\ err = "None"
    /\ ncommits = 0
    /\ applied = [s \in {1, 2} |-> <<>>]
    /\ cnt = NoCount
    /\ surfaces_by_xwayland_serial = {}
    /\ position = XdgPositioned
    /\ xorg = NoOutput
    /\ last = NoStep

NextSync ==
    \/ \E b \in {0} \cup Buffers : Attach(2, b, 0, 0)
    \/ \E pt \in AcquirePoints : SetAcquirePoint(2, pt)
    \/ \E pt \in ReleasePoints : SetReleasePoint(2, pt)
    \/ \E s \in {1, 2} : Commit(s)

SpecSync == InitSync /\ [][NextSync]_vars

\* SpecDestroy: surface 2 is a synchronized subsurface of surface 1.  The
\* client attaches a buffer, requests frame callbacks and sets xwayland
\* serials on both, commits, destroys the subsurface object of 2 or not,
\* and destroys the surfaces.  Requests that only fill a pending state
\* are issued while a commit is still to come.
DestroySerials == {1, 2}
MaxDestroyCommits == 2

InitDestroy ==
    /\ sub = [c \in {2} |-> Subsurface(1, TRUE)]
    /\ surf = [s \in {1, 2} |->
                 [NewSurface(6) EXCEPT
                    !.role = IF s = 1 THEN "None" ELSE "Subsurface",
                    !.ext = IF s = 1 THEN "None" ELSE "Subsurface",
                    !.children = IF s = 1 THEN Some_({2}) ELSE None_({})]]
    /\ tl = [s \in {1, 2} |-> IdleTimeline]
    /\ destroyed = {}
    /\ render_ctx = TRUE
    /\ err = "None"
    /\ ncommits = 0
    /\ applied = [s \in {1, 2} |-> <<>>]
    /\ cnt = NoCount
    /\ surfaces_by_xwayland_serial = {}
    /\ position = XdgPositioned
    /\ xorg = NoOutput
    /\ last = NoStep

\* The requests between two commits set different fields of the pending
\* states, so the client issues them in one order.
DestroyOrder ==
    [op \in {"init", "commit", "subsurface_destroy", "destroy", "attach",
             "frame", "set_serial"} |->
       CASE op = "attach" -> 1
         [] op = "frame" -> 2
         [] op = "set_serial" -> 3
         [] OTHER -> 0]

NextDestroy ==
    \/ \E s \in {1, 2} :
         /\ ncommits < MaxDestroyCommits
         /\ DestroyOrder[last.op] < 1 \/ (last.op = "attach" /\ last.s < s)
         /\ Attach(s, 1, 0, 0)
    \/ \E s \in {1, 2} :
         /\ ncommits < MaxDestroyCommits
         /\ DestroyOrder[last.op] < 2 \/ (last.op = "frame" /\ last.s < s)
         /\ Frame(s)
    \/ \E s \in {1, 2}, serial \in DestroySerials :
         /\ ncommits < MaxDestroyCommits
         /\ DestroyOrder[last.op] < 3 \/ (last.op = "set_serial" /\ last.s < s)
         /\ SetXwaylandSerial(s, serial)
    \/ \E s \in {1, 2} : ncommits < MaxDestroyCommits /\ Commit(s)
    \/ SubsurfaceDestroy(2)
    \/ \E s \in {1, 2} : Destroy(s)

SpecDestroy == InitDestroy /\ [][NextDestroy]_vars

\* SpecTwice: one surface whose pending state holds a delta: a set of the
\* optional fields, a buffer, the null buffer or none, an offset and one
\* frame callback or none.  The client sends commit after commit with no
\* other request in between.
InitTwice ==
    /\ \E first \in FieldDeltas(1), b \in {None_(0), Some_(0), Some_(1)},
          o \in {<<0, 0>>, <<3, 4>>}, frames \in {<<>>, <<1>>} :
         surf = [s \in {1} |->
                   [NewSurface(6) EXCEPT
                      !.pending = [first EXCEPT !.buffer = b, !.offset = o,
                                                !.frame_request = frames]]]
    /\ sub = EmptyMap
    /\ tl = [s \in {1} |-> IdleTimeline]
    /\ destroyed = {}
    /\ render_ctx = TRUE
    /\ err = "None"
    /\ ncommits = 0
    /\ applied = [s \in {1} |-> <<>>]
    /\ cnt = [NoCount EXCEPT !.objects = 1]
    /\ surfaces_by_xwayland_serial = {}
    /\ position = XdgPositioned
    /\ xorg = NoOutput
    /\ last = NoStep

NextTwice == Commit(1)

SpecTwice == InitTwice /\ [][NextTwice]_vars

\* ------------------------------------------------- backends/xorg.rs: present
\* XorgBackend::present (lines 675-725): the next image is rendered into and
\* handed to the X server with the next serial; `ok` is whether
\* xcb_present_pixmap_checked succeeded.  `presents` records the image, its
\* idle flag when it was rendered into, and the serial.  The serial is a
\* u32 and next_image a usize; neither wraps within MaxPresents.
present(o, ok) ==
    LET i == (o.next_image % Len(o.images)) + 1
        o1 == [o EXCEPT !.next_image = @ + 1, !.serial = @ + 1]
    IN [output |-> IF ok THEN [o1 EXCEPT !.images[i].idle = FALSE,
                                         !.images[i].last_serial = o.serial]
                   ELSE o1,
        presents |-> <<[image |-> i, idle |-> o.images[i].idle,
                        serial |-> o.serial, ok |-> ok]>>]

\* the next image is presented whether it is idle or not
HandlePresentCompleteAlways(o, ok) == present(o, ok)

\* XorgBackend::handle_present_complete (lines 632-652)
handle_present_complete(o, ok) ==
    LET i == (o.next_image % Len(o.images)) + 1
    IN IF o.images[i].idle THEN present(o, ok)
       ELSE [output |-> [o EXCEPT !.images[i].render_on_idle = TRUE],
             presents |-> <<>>]

\* the render_on_idle flag is left set
IdleImageKeepsFlag(r, i, serial, ok) ==
    IF r.output.images[i].last_serial # serial THEN r
    ELSE LET o1 == [r.output EXCEPT !.images[i].idle = TRUE]
         IN IF r.output.images[i].render_on_idle
            THEN LET pr == present(o1, ok)
                 IN [output |-> pr.output,
                     presents |-> r.presents \o pr.presents]
            ELSE [output |-> o1, presents |-> r.presents]

\* One round of the loop of handle_present_idle (lines 664-671) for image i.
IdleImage(r, i, serial, ok) ==
    IF r.output.images[i].last_serial # serial THEN r
    ELSE LET o1 == [r.output EXCEPT !.images[i].idle = TRUE,
                                    !.images[i].render_on_idle = FALSE]
         IN IF r.output.images[i].render_on_idle
            THEN LET pr == present(o1, ok)
                 IN [output |-> pr.output,
                     presents |-> r.presents \o pr.presents]
            ELSE [output |-> o1, presents |-> r.presents]

\* XorgBackend::handle_present_idle (lines 654-673)
handle_present_idle(o, serial, ok) ==
    IdleImage(IdleImage([output |-> o, presents |-> <<>>], 1, serial, ok[1]),
              2, serial, ok[2])

\* The X server reports each presented pixmap as complete once and as idle
\* once, in any order.
Presented(x, r) ==
    LET done == {r.presents[k].serial : k \in {j \in 1..Len(r.presents) :
                                                  r.presents[j].ok}}
    IN [output |-> r.output, complete |-> x.complete \cup done,
        idle |-> x.idle \cup done]

MaxPresents == 12

\* PresentCompleteNotify for the pixmap presented with `serial`
PresentComplete(serial) ==
    /\ serial \in xorg.complete
    /\ xorg.output.serial < MaxPresents
    /\ \E ok \in BOOLEAN :
       \E r \in {handle_present_complete(xorg.output, ok)} :
         /\ r.presents = <<>> => ok
         /\ xorg' = Presented([xorg EXCEPT !.complete = @ \ {serial}], r)
         /\ last' = [NoStep EXCEPT !.op = "present_complete",
                                   !.arg = <<serial>>,
                                   !.presents = r.presents]
    /\ UNCHANGED <<surf, position, sub, tl, destroyed, render_ctx, err, ncommits,
                   applied, cnt, surfaces_by_xwayland_serial>>

\* PresentIdleNotify for the pixmap presented with `serial`
PresentIdle(serial) ==
    /\ serial \in xorg.idle
    /\ xorg.output.serial < MaxPresents
    /\ \E ok \in [{1, 2} -> BOOLEAN] :
       \E r \in {handle_present_idle(xorg.output, serial, ok)} :
         /\ \A i \in {1, 2} : Len(r.presents) < i => ok[i]
         /\ xorg' = Presented([xorg EXCEPT !.idle = @ \ {serial}], r)
         /\ last' = [NoStep EXCEPT !.op = "present_idle",
                                   !.arg = <<serial>>,
                                   !.presents = r.presents]
    /\ UNCHANGED <<surf, position, sub, tl, destroyed, render_ctx, err, ncommits,
                   applied, cnt, surfaces_by_xwayland_serial>>

\* SpecPresent: the X11 backend with one output, which has been presented
\* once when its window was created (line 492), and no Wayland client.
InitPresent ==
    /\ \E ok \in BOOLEAN :
         xorg = Presented(NoOutput, present(XorgOutput, ok))
    /\ surf = EmptyMap
    /\ sub = EmptyMap
    /\ tl = EmptyMap
    /\ destroyed = {}
    /\ render_ctx = TRUE
    /\ err = "None"
    /\ ncommits = 0
    /\ applied = EmptyMap
    /\ cnt = NoCount
    /\ surfaces_by_xwayland_serial = {}
    /\ position = XdgPositioned
    /\ last = NoStep

NextPresent ==
    \/ \E serial \in 0..MaxPresents : PresentComplete(serial)
    \/ \E serial \in 0..MaxPresents : PresentIdle(serial)

SpecPresent == InitPresent /\ [][NextPresent]_vars

\* ------------------------------------------------ xdg_positioner requests
PositionerStep(op, res, arg, pos) ==
    /\ err = "None"
    /\ position' = IF res = "Ok" THEN pos ELSE position
    /\ err' = IF res = "Ok" THEN "None" ELSE res
    /\ last' = [NoStep EXCEPT !.op = op, !.res = res, !.arg = arg]
    /\ UNCHANGED <<surf, sub, tl, destroyed, render_ctx, ncommits, applied,
                   cnt, surfaces_by_xwayland_serial, xorg>>

\* xdg_positioner.set_size (lines 162-176)
SetSize(width, height) ==
    PositionerStep("set_size",
                   IF width <= 0 \/ height <= 0 THEN "NonPositiveSize" ELSE "Ok",
                   <<width, height>>,
                   [position EXCEPT !.size_width = width,
                                    !.size_height = height])

\* xdg_positioner.set_anchor_rect (lines 178-191)
SetAnchorRect(x, y, width, height) ==
    PositionerStep("set_anchor_rect",
                   IF width < 0 \/ height < 0 THEN "NegativeAnchorRect"
                   ELSE "Ok",
                   <<x, y, width, height>>,
                   [position EXCEPT !.ar = Rect(x, y, x + width, y + height)])

\* xdg_positioner.set_anchor (lines 193-201)
SetAnchor(anchor) ==
    PositionerStep("set_anchor",
                   IF from_enum(anchor) = {"None"} THEN "UnknownAnchor"
                   ELSE "Ok",
                   <<anchor>>,
                   [position EXCEPT !.anchor = from_enum(anchor)])

\* xdg_positioner.set_gravity (lines 203-211)
SetGravity(gravity) ==
    PositionerStep("set_gravity",
                   IF from_enum(gravity) = {"None"} THEN "UnknownGravity"
                   ELSE "Ok",
                   <<gravity>>,
                   [position EXCEPT !.gravity = from_enum(gravity)])

\* xdg_positioner.set_offset (lines 231-237)
SetOffset(x, y) ==
    PositionerStep("set_offset", "Ok", <<x, y>>,
                   [position EXCEPT !.off_x = x, !.off_y = y])

\* A popup is placed with the positioner: XdgPositioned::get_position.
GetPosition ==
    /\ err = "None"
    /\ last' = [NoStep EXCEPT !.op = "get_position",
                              !.rect = get_position(position)]
    /\ UNCHANGED <<surf, sub, tl, destroyed, render_ctx, err, ncommits,
                   applied, cnt, surfaces_by_xwayland_serial, position, xorg>>

\* SpecPosition: a client with one xdg_positioner and no surface.  The
\* client sets the size, the anchor rectangle, anchor, gravity and offset
\* to values of small sets, among them the ones the requests reject, and
\* the position is computed.
PositionerSizes == {<<0, 2>>, <<2, 2>>, <<3, 5>>}
AnchorRects == {<<0, 0, 4, 6>>, <<1, 2, 5, 3>>, <<0, 0, -1, 2>>}
PositionerOffsets == {<<1, 2>>, <<-3, 4>>, <<2, 2>>}

InitPosition ==
    /\ surf = EmptyMap
    /\ sub = EmptyMap
    /\ tl = EmptyMap
    /\ destroyed = {}
    /\ render_ctx = TRUE
    /\ err = "None"
    /\ ncommits = 0
    /\ applied = EmptyMap
    /\ cnt = NoCount
    /\ surfaces_by_xwayland_serial = {}
    /\ position = XdgPositioned
    /\ xorg = NoOutput
    /\ last = NoStep

NextPosition ==
    \/ \E size \in PositionerSizes : SetSize(size[1], size[2])
    \/ \E ar \in AnchorRects : SetAnchorRect(ar[1], ar[2], ar[3], ar[4])
    \/ \E anchor \in 0..9 : SetAnchor(anchor)
    \/ \E gravity \in 0..9 : SetGravity(gravity)
    \/ \E o \in PositionerOffsets : SetOffset(o[1], o[2])
    \/ GetPosition

SpecPosition == InitPosition /\ [][NextPosition]_vars

\* SpecFold: surface 2 is a synchronized subsurface of surface 1.  The
\* client requests frame callbacks on both and presentation feedback on the
\* subsurface, records one offset per cycle on the subsurface and commits:
\* the deltas of the subsurface are merged in the parent's pending state
\* until the parent commits.
InitFold ==
    /\ sub = [c \in {2} |-> Subsurface(1, TRUE)]
    /\ surf = [s \in {1, 2} |->
                 [NewSurface(6) EXCEPT
                    !.role = IF s = 1 THEN "None" ELSE "Subsurface",
                    !.ext = IF s = 1 THEN "None" ELSE "Subsurface",
                    !.children = IF s = 1 THEN Some_({2}) ELSE None_({})]]
    /\ tl = [s \in {1, 2} |-> IdleTimeline]
    /\ destroyed = {}
    /\ render_ctx = TRUE
    /\ err = "None"
    /\ ncommits = 0
    /\ applied = [s \in {1, 2} |-> <<>>]
    /\ cnt = NoCount
    /\ surfaces_by_xwayland_serial = {}
    /\ position = XdgPositioned
    /\ xorg = NoOutput
    /\ last = NoStep

NextFold ==
    \/ \E s \in {1, 2} : Frame(s)
    \/ AddPresentationFeedback(2)
    \/ \E o \in OffsetArgs \ {<<0, 0>>} :
         surf[2].pending.offset = <<0, 0>> /\ Offset(2, o[1], o[2])
    \/ \E s \in {1, 2} : Commit(s)

SpecFold == InitFold /\ [][NextFold]_vars

\* ------------------------------------------------------------------ claims
\* A step that handles a commit request on surface s.
CommitStep(s) == ncommits' = ncommits + 1 /\ last'.s = s
\* The explicit-sync validation's inputs before the commit request.
BothPoints(s) ==
    surf[s].pending.acquire_point # 0 /\ surf[s].pending.release_point # 0
NoPoint(s) ==
    surf[s].pending.acquire_point = 0 /\ surf[s].pending.release_point = 0
CommittedAll(S) == [s \in DOMAIN S |-> Committed(S[s])]

\* C4: with an explicit-sync object attached a commit passes the validation
\* iff it attaches a non-null buffer with both points or no non-null buffer
\* and no point; a missing point gives MissingSyncPoints, an unexpected one
\* UnexpectedSyncPoints, and a rejected commit queues and applies nothing;
\* without an explicit-sync object the validation always passes.
C4_ExplicitSyncValidation ==
    [][\A s \in DOMAIN surf : CommitStep(s) =>
         /\ ~surf[s].sync_obj_surface => last'.verify = "Ok"
         /\ surf[s].sync_obj_surface =>
              /\ last'.verify = "Ok" <=>
                   \/ NewBuffer(s) /\ BothPoints(s)
                   \/ ~NewBuffer(s) /\ NoPoint(s)
              /\ NewBuffer(s) /\ ~BothPoints(s)
                    => last'.verify = "MissingSyncPoints"
              /\ ~NewBuffer(s) /\ ~NoPoint(s)
                    => last'.verify = "UnexpectedSyncPoints"
         /\ last'.verify # "Ok" =>
              /\ err' = last'.verify
              /\ tl' = tl
              /\ applied' = applied
              /\ CommittedAll(surf') = CommittedAll(surf)]_vars

C4_Witness ==
    /\ last.op = "commit"
    /\ last.verify = "MissingSyncPoints"
    /\ err = "MissingSyncPoints"

\* C5: a commit request on a surface whose earlier commit still waits for its
\* acquire fence is rejected with a protocol error; the waiting delta is not
\* changed (nothing is merged into it) and nothing is applied.
C5_OneGatedCommit ==
    [][\A s \in DOMAIN surf :
         CommitStep(s) /\ tl[s].state = "AwaitingAcquireFence" =>
           /\ err' # "None"
           /\ last'.outcome = "rejected"
           /\ tl' = tl
           /\ applied' = applied
           /\ CommittedAll(surf') = CommittedAll(surf)]_vars

C5_Witness ==
    /\ last.op = "commit"
    /\ last.res = "CommitTimelineError"
    /\ tl[last.s].state = "AwaitingAcquireFence"

\* C6: the commits of a surface are applied in the order of their requests,
\* and no commit is applied while an earlier one of the surface waits.
Increasing(log) == \A i, j \in 1..Len(log) : i < j => log[i] < log[j]
C6_CommitOrder ==
    \A s \in DOMAIN surf :
      /\ Increasing(applied[s])
      /\ tl[s].state = "AwaitingAcquireFence" =>
           \A i \in 1..Len(applied[s]) : applied[s][i] < tl[s].held.commits[1]

C6_Witness ==
    /\ last.op = "resume"
    /\ Len(applied[1]) >= 2
    /\ last.applied # <<>>

\* C7: destroying a surface while one of its commits waits for its acquire
\* fence discards the commit: the release point it owned is signalled, the
\* timeline holds nothing afterwards and nothing is ever applied to the
\* destroyed surface.
C7_DestroyDiscardsGated ==
    [][\A s \in DOMAIN surf :
         /\ (last'.op = "destroy" /\ last'.s = s /\ ~surf[s].destroyed
               /\ tl[s].state = "AwaitingAcquireFence") =>
              /\ Len(last'.cleared) = 1
              /\ last'.cleared[1].commits = tl[s].held.commits
              /\ last'.cleared[1].signalled = tl[s].held.release_point
              /\ tl[s].held.release_point # 0
              /\ tl'[s].state = "Idle"
              /\ tl'[s].held.buffer.val = 0
              /\ applied' = applied
         /\ surf[s].destroyed =>
              /\ applied'[s] = applied[s]
              /\ tl'[s].state = "Idle"
              /\ Committed(surf'[s]) = Committed(surf[s])]_vars

C7_Witness ==
    /\ last.op = "destroy"
    /\ last.res = "Ok"
    /\ surf[last.s].destroyed
    /\ Len(last.cleared) = 1
    /\ last.cleared[1].signalled # 0

\* C9: an ungated commit is applied at once also while another surface's
\* commit waits for its acquire fence, whether or not that fence is ready.
Ungated(s) ==
    /\ tl[s].state = "Idle"
    /\ verify_explicit_sync(surf[s].sync_obj_surface, surf[s].pending) = "Ok"
    /\ ~(surf[s].sync_obj_surface /\ surf[s].pending.acquire_point # 0)
C9_SurfacesIndependent ==
    [][\A s \in DOMAIN surf :
         (/\ CommitStep(s)
          /\ Ungated(s)
          /\ \E t \in DOMAIN surf \ {s} : tl[t].state = "AwaitingAcquireFence") =>
            /\ last'.outcome = "applied"
            /\ applied'[s] = applied[s] \o <<ncommits + 1>>
            /\ tl' = tl]_vars

C9_Witness ==
    /\ last.op = "commit"
    /\ last.s = 2
    /\ last.outcome = "applied"
    /\ tl[1].state = "AwaitingAcquireFence"
    /\ ~tl[1].ready
    /\ surf[2].buffer.buffer = 2
\* C8: a gated commit whose fence is ready is eventually applied unless the
\* surface is destroyed (or its client is ended by a protocol error) first,
\* and no commit is applied twice.
InLog(log, n) == \E i \in 1..Len(log) : log[i] = n
NoDuplicates(log) == \A i, j \in 1..Len(log) : i # j => log[i] # log[j]
C8_GatedEventuallyApplied ==
    /\ \A n \in 1..MaxCommits :
         (/\ tl[1].state = "AwaitingAcquireFence"
          /\ tl[1].ready
          /\ tl[1].held.commits = <<n>>)
           ~> (InLog(applied[1], n) \/ surf[1].destroyed \/ err # "None")
    /\ [](\A s \in DOMAIN surf : NoDuplicates(applied[s]))

C8_Witness ==
    /\ last.op = "resume"
    /\ last.outcome = "applied"
    /\ ~surf[1].destroyed
    /\ surf[1].buffer.release # 0
    /\ InLog(applied[1], last.applied[1].commits[1])

\* ------------------------------------------------------- release accounting
ExactlyOne(a, b, c) == (a /\ ~b /\ ~c) \/ (~a /\ b /\ ~c) \/ (~a /\ ~b /\ c)

Parent(c) == sub[c].parent
IsSubsurface(c) == c \in DOMAIN sub /\ surf[c].ext = "Subsurface"
IsSyncSubsurface(c) == IsSubsurface(c) /\ sub[c].sync
\* The delta of subsurface c that its parent's pending state holds.
HasOlderDelta(c) == c \in DOMAIN surf[Parent(c)].pending.subsurfaces
OlderDelta(c) == surf[Parent(c)].pending.subsurfaces[c]
\* The commit request on c is about to merge a delta attaching a buffer into
\* an older delta that attached a buffer.
MergesBuffers(c) ==
    /\ IsSyncSubsurface(c)
    /\ HasOlderDelta(c)
    /\ OlderDelta(c).buffer.set /\ OlderDelta(c).buffer.val # 0
    /\ NewBuffer(c)
\* The parent's commit is applied in this step with a delta for c that
\* attaches a buffer.
AppliesBufferOf(c) ==
    /\ CommitStep(Parent(c))
    /\ last'.outcome = "applied"
    /\ ~surf[c].destroyed
    /\ HasOlderDelta(c)
    /\ OlderDelta(c).buffer.set /\ OlderDelta(c).buffer.val # 0

\* C3 as stated: when a delta attaching B is merged into an older delta that
\* attached A, A receives exactly one release (the signal of the older
\* delta's release point if it had one, otherwise the legacy release event),
\* the merged delta's buffer is B, and B is what is applied.
C3_MergeReleasesOlderBuffer ==
    [][\A c \in DOMAIN sub :
         /\ (CommitStep(c) /\ MergesBuffers(c) /\ last'.verify = "Ok") =>
              /\ Len(last'.notes) = 1
              /\ last'.notes[1].discarded = OlderDelta(c).buffer.val
              /\ IF OlderDelta(c).release_point # 0
                 THEN /\ last'.notes[1].signalled = OlderDelta(c).release_point
                      /\ last'.notes[1].released = 0
                 ELSE /\ last'.notes[1].signalled = 0
                      /\ last'.notes[1].released = OlderDelta(c).buffer.val
              /\ surf'[Parent(c)].pending.subsurfaces[c].buffer
                     = surf[c].pending.buffer
         /\ AppliesBufferOf(c) =>
              surf'[c].buffer.buffer = OlderDelta(c).buffer.val]_vars

\* C3 amended: as stated, except that without a release point the legacy
\* release event is sent to A only if the client has not destroyed A; if it
\* has, A receives no release.
C3_MergeReleasesLiveOlderBuffer ==
    [][\A c \in DOMAIN sub :
         /\ (CommitStep(c) /\ MergesBuffers(c) /\ last'.verify = "Ok") =>
              /\ Len(last'.notes) = 1
              /\ last'.notes[1].discarded = OlderDelta(c).buffer.val
              /\ IF OlderDelta(c).release_point # 0
                 THEN /\ last'.notes[1].signalled = OlderDelta(c).release_point
                      /\ last'.notes[1].released = 0
                 ELSE /\ last'.notes[1].signalled = 0
                      /\ last'.notes[1].released =
                            IF OlderDelta(c).buffer.val \in destroyed
                            THEN 0 ELSE OlderDelta(c).buffer.val
              /\ surf'[Parent(c)].pending.subsurfaces[c].buffer
                     = surf[c].pending.buffer
         /\ AppliesBufferOf(c) =>
              surf'[c].buffer.buffer = OlderDelta(c).buffer.val]_vars

C3_Witness ==
    /\ last.op = "commit"
    /\ last.s = 1
    /\ last.outcome = "applied"
    /\ applied[2] = <<1, 2>>
    /\ surf[2].buffer.buffer = 2
    /\ cnt.superseded = 1
    /\ cnt.explicit = 1

\* ------------------------------------------------------------- subsurfaces
RECURSIVE IsAncestor(_, _)
IsAncestor(a, c) ==
    /\ c \in DOMAIN sub
    /\ (a = Parent(c) \/ IsAncestor(a, Parent(c)))
AppliedIn(step, s) == \E i \in 1..Len(step.applied) : step.applied[i].surface = s
\* The deltas buffered below the pending state p, at depth one and two, each
\* with the surface it belongs to.
Nested(p) ==
    {<<c, p.subsurfaces[c]>> : c \in DOMAIN p.subsurfaces} \cup
    UNION {{<<g, p.subsurfaces[c].subsurfaces[g]>> :
               g \in DOMAIN p.subsurfaces[c].subsurfaces} :
           c \in DOMAIN p.subsurfaces}

\* C10: a commit on a synchronized subsurface is buffered in its parent and
\* changes no committed state; the committed state of a synchronized
\* subsurface changes only in a step that applies a commit of an ancestor,
\* its parent's delta included; a commit that is applied applies every delta
\* buffered below it, at any depth; a commit on a desynchronized subsurface
\* is applied at once.
C10_SyncSubsurfaceCommit ==
    [][/\ \A c \in DOMAIN sub :
            /\ (IsSyncSubsurface(c) /\ CommitStep(c) /\ last'.res = "Ok") =>
                 /\ last'.outcome = "buffered"
                 /\ CommittedAll(surf') = CommittedAll(surf)
                 /\ applied' = applied
                 /\ c \in DOMAIN surf'[Parent(c)].pending.subsurfaces
                 /\ InLog(surf'[Parent(c)].pending.subsurfaces[c].commits,
                          ncommits + 1)
            /\ (IsSyncSubsurface(c) /\ Committed(surf'[c]) # Committed(surf[c])) =>
                 /\ last'.op = "commit"
                 /\ IsAncestor(last'.s, c)
                 /\ AppliedIn(last', Parent(c))
                 /\ AppliedIn(last', c)
            /\ (IsSubsurface(c) /\ ~sub[c].sync /\ CommitStep(c) /\ Ungated(c)) =>
                 /\ last'.outcome = "applied"
                 /\ applied'[c] = applied[c] \o <<ncommits + 1>>
                 /\ NewBuffer(c) =>
                       surf'[c].buffer.buffer = surf[c].pending.buffer.val
       /\ \A t \in DOMAIN surf :
            (CommitStep(t) /\ last'.outcome = "applied") =>
              \A e \in Nested(surf[t].pending) :
                 ~surf[e[1]].destroyed =>
                   /\ applied'[e[1]] = applied[e[1]] \o e[2].commits
                   /\ (e[2].buffer.set /\ e[2].buffer.val # 0) =>
                         surf'[e[1]].buffer.buffer = e[2].buffer.val]_vars

C10_Witness ==
    /\ last.op = "commit"
    /\ last.s = 1
    /\ last.outcome = "applied"
    /\ sub[2].sync /\ sub[3].sync
    /\ applied[3] = <<1>>
    /\ applied[2] = <<2>>
    /\ applied[1] = <<3>>
    /\ surf[3].buffer.buffer # 0
\* A step that handles the request `op` on surface s.
RequestStep(op, s) == last'.op = op /\ last'.s = s /\ last' # last

\* C11: once the role of a surface is not None it never changes; set_role
\* with a different role fails with IncompatibleRole and leaves the role as
\* it is, set_role with the role the surface has succeeds and changes
\* nothing, and set_role on a surface without role succeeds and sets it.
C11_RoleNeverChanges ==
    [][\A s \in DOMAIN surf :
         /\ surf[s].role # "None" => surf'[s].role = surf[s].role
         /\ RequestStep("set_role", s) =>
              LET role == last'.arg[1] IN
              /\ (surf[s].role # "None" /\ role # surf[s].role) =>
                    /\ last'.res = "IncompatibleRole"
                    /\ err' = "IncompatibleRole"
                    /\ surf'[s] = surf[s]
              /\ role = surf[s].role =>
                    last'.res = "Ok" /\ err' = "None" /\ surf'[s] = surf[s]
              /\ surf[s].role = "None" =>
                    last'.res = "Ok" /\ err' = "None" /\ surf'[s].role = role
      ]_vars

\* a surface with a role has been asked to take a different one
C11_Witness ==
    /\ last.op = "set_role"
    /\ last.res = "IncompatibleRole"
    /\ surf[1].role \notin {"None", last.arg[1]}

\* C14 as stated: the offsets recorded by the attach and offset requests of
\* one uncommitted cycle add up.
C14_OffsetsAccumulate ==
    [][\A s \in DOMAIN surf :
         ((RequestStep("attach", s) \/ RequestStep("offset", s))
            /\ last'.res = "Ok") =>
           surf'[s].pending.offset = MergeOffset(surf[s].pending.offset, last'.arg)
      ]_vars

\* C14: within one uncommitted cycle the offset recorded last replaces the
\* pending offset: wl_surface.offset (version 5 and later) and an attach on
\* a surface older than version 5 store their offset; an attach on version 5
\* or later with a non-zero offset fails with OffsetInAttach and one with
\* offset zero leaves the pending offset as it is; a commit that attaches a
\* non-null buffer moves the buffer position by the pending offset.
C14_LastOffsetWins ==
    [][\A s \in DOMAIN surf :
         /\ RequestStep("offset", s) =>
               surf[s].version >= 5 /\ surf'[s].pending.offset = last'.arg
         /\ (RequestStep("attach", s) /\ surf[s].version < 5) =>
               surf'[s].pending.offset = last'.arg
         /\ (RequestStep("attach", s) /\ surf[s].version >= 5) =>
               /\ surf'[s].pending.offset = surf[s].pending.offset
               /\ last'.arg # <<0, 0>> =>
                     last'.res = "OffsetInAttach" /\ surf' = surf
         /\ (RequestStep("commit", s) /\ last'.outcome = "applied") =>
               /\ surf'[s].pending.offset = <<0, 0>>
               /\ NewBuffer(s) =>
                     /\ surf'[s].buf_x = surf[s].buf_x + surf[s].pending.offset[1]
                     /\ surf'[s].buf_y = surf[s].buf_y + surf[s].pending.offset[2]
      ]_vars

\* an offset request has replaced the pending offset (3,4) of a cycle that
\* attaches a buffer by (1,1)
C14_Witness ==
    /\ last.op = "offset"
    /\ last.replaced = <<3, 4>>
    /\ last.arg = <<1, 1>>
    /\ surf[1].pending.offset = <<1, 1>>
    /\ NewBuffer(1)
\* What the committed viewport, scale, transform and buffer of surface s
\* are once its pending state is applied.
Resulting(s) ==
    LET p == surf[s].pending IN
    [src_rect |-> IF p.src_rect.set THEN p.src_rect.val ELSE surf[s].src_rect,
     dst_size |-> IF p.dst_size.set THEN p.dst_size.val ELSE surf[s].dst_size,
     scale |-> IF p.scale.set THEN p.scale.val ELSE surf[s].buffer_scale,
     transform |-> IF p.transform.set THEN p.transform.val
                   ELSE surf[s].buffer_transform,
     buffer |-> IF p.buffer.set THEN p.buffer.val ELSE surf[s].buffer.buffer]

\* The source rectangle has a non-integer width or height.
NonIntegerSource(v) ==
    /\ v.src_rect.set
    /\ \/ v.src_rect.val[3] % FixedOne # 0
       \/ v.src_rect.val[4] % FixedOne # 0

\* The source rectangle times the buffer scale extends beyond the
\* transform-swapped pixel size of the buffer.
SourceBeyondBuffer(v) ==
    /\ v.buffer # 0
    /\ v.src_rect.set
    /\ LET r == v.src_rect.val
           w == IF v.transform = "Rotate90" THEN BufferSize(v.buffer)[2]
                ELSE BufferSize(v.buffer)[1]
           h == IF v.transform = "Rotate90" THEN BufferSize(v.buffer)[1]
                ELSE BufferSize(v.buffer)[2]
       IN \/ (r[1] + r[3]) * v.scale > w * FixedOne
          \/ (r[2] + r[4]) * v.scale > h * FixedOne

\* A step in which apply_state ran on the pending state of s.
ApplyStep(s) ==
    RequestStep("commit", s) /\ last'.outcome \in {"applied", "failed"}

\* C12: a commit whose resulting viewport has a source rectangle of
\* non-integer width or height and no destination size fails with
\* NonIntegerViewportSize; with a destination size, or with an integer
\* source rectangle, it does not.
C12_NonIntegerViewportSize ==
    [][\A s \in DOMAIN surf : ApplyStep(s) =>
         (last'.res = "NonIntegerViewportSize"
            <=> NonIntegerSource(Resulting(s)) /\ ~Resulting(s).dst_size.set)
      ]_vars

\* a commit has failed with NonIntegerViewportSize
C12_Witness ==
    /\ last.op = "commit"
    /\ last.res = "NonIntegerViewportSize"
    /\ err = "NonIntegerViewportSize"
    /\ surf[1].src_rect.set
    /\ ~surf[1].dst_size.set

\* a commit with the same fractional source rectangle and a destination size
\* has been applied
C12_WitnessAccepted ==
    /\ last.op = "commit"
    /\ last.res = "Ok"
    /\ NonIntegerSource(surf[1])
    /\ surf[1].dst_size.set

\* C13: a commit after which the surface has a buffer and a source
\* rectangle that, times the buffer scale, extends beyond the buffer's
\* transform-swapped pixel size fails with ViewportOutsideBuffer, whichever
\* of buffer, source rectangle, scale and transform the commit changes; no
\* other commit fails with it.
C13_ViewportOutsideBuffer ==
    [][\A s \in DOMAIN surf :
         (ApplyStep(s) /\ last'.res # "NonIntegerViewportSize") =>
           (last'.res = "ViewportOutsideBuffer" <=> SourceBeyondBuffer(Resulting(s)))
      ]_vars

\* a commit that only attaches a smaller buffer under a committed source
\* rectangle has failed with ViewportOutsideBuffer
C13_Witness ==
    /\ last.op = "commit"
    /\ last.res = "ViewportOutsideBuffer"
    /\ ncommits = 2
    /\ surf[1].buffer.buffer = 2
    /\ surf[1].buffer_scale = 1
    /\ surf[1].buffer_transform = "None"

\* The size of the surface by the precedence of C15 as stated: destination
\* size, then buffer, then source crop.
SizeBufferBeforeCrop(sf) ==
    IF sf.dst_size.set THEN sf.dst_size.val
    ELSE IF sf.buffer.buffer # 0 THEN BufferDerivedSize(sf)
    ELSE IF sf.src_rect.set
    THEN <<sf.src_rect.val[3] \div FixedOne, sf.src_rect.val[4] \div FixedOne>>
    ELSE <<0, 0>>

\* The size by the precedence of the code: destination size, then source
\* crop, then buffer.
SizeCropBeforeBuffer(sf) ==
    IF sf.dst_size.set THEN sf.dst_size.val
    ELSE IF sf.src_rect.set
    THEN <<sf.src_rect.val[3] \div FixedOne, sf.src_rect.val[4] \div FixedOne>>
    ELSE IF sf.buffer.buffer # 0
    THEN LET sz == IF sf.buffer_transform = "Rotate90"
                   THEN <<BufferSize(sf.buffer.buffer)[2],
                          BufferSize(sf.buffer.buffer)[1]>>
                   ELSE BufferSize(sf.buffer.buffer)
         IN <<(sz[1] + sf.buffer_scale - 1) \div sf.buffer_scale,
              (sz[2] + sf.buffer_scale - 1) \div sf.buffer_scale>>
    ELSE <<0, 0>>

\* C15 as stated: the buffer's size is preferred to the source crop.
C15_SizeBufferBeforeCrop ==
    \A s \in DOMAIN surf :
      (err = "None" /\ ~surf[s].destroyed) =>
        RectSize(surf[s].buffer_abs_pos) = SizeBufferBeforeCrop(surf[s])

\* C15: the committed size is the destination size if one is set; otherwise
\* the integer size of the source crop if a source rectangle is set;
\* otherwise the buffer's pixel size, transform-swapped and divided by the
\* buffer scale rounding up; otherwise (0, 0).
C15_SizePrecedence ==
    \A s \in DOMAIN surf :
      (err = "None" /\ ~surf[s].destroyed) =>
        RectSize(surf[s].buffer_abs_pos) = SizeCropBeforeBuffer(surf[s])

\* a surface with a buffer and a source crop of another size, without
\* destination size, has the size of the crop
C15_Witness ==
    /\ last.op = "commit"
    /\ err = "None"
    /\ surf[1].buffer.buffer = 1
    /\ surf[1].src_rect.set
    /\ ~surf[1].dst_size.set
    /\ RectSize(surf[1].buffer_abs_pos) = <<3, 2>>
    /\ BufferDerivedSize(surf[1]) = <<4, 2>>

\* C16: a commit in which apply_state returns an error leaves the committed
\* fields of every surface as they were.
C16_FailedCommitChangesNothing ==
    [][\A s \in DOMAIN surf :
         (ApplyStep(s) /\ last'.res # "Ok") =>
           CommittedAll(surf') = CommittedAll(surf)
      ]_vars
\* The commit request on the synchronized subsurface c merges its pending
\* state into the older delta its parent holds.
MergeStep(c) ==
    /\ IsSyncSubsurface(c)
    /\ HasOlderDelta(c)
    /\ RequestStep("commit", c) \/ RequestStep("merge", c)
    /\ last'.outcome = "buffered"
\* The delta of c the parent holds after the step.
MergedDelta(c) == surf'[Parent(c)].pending.subsurfaces[c]

\* The frame callbacks requested on s that have not fired, oldest first:
\* the committed ones, those of the delta the parent holds for s, and the
\* pending ones.
FrameChain(s) ==
    surf[s].frame_requests
      \o (IF IsSyncSubsurface(s) /\ HasOlderDelta(s)
          THEN OlderDelta(s).frame_request ELSE <<>>)
      \o surf[s].pending.frame_request
StrictlyIncreasing(seq) ==
    \A i, j \in 1..Len(seq) : i < j => seq[i] < seq[j]

\* C17: every frame callback requested on a surface is kept exactly once
\* and in request order through the pending state, every merge into the
\* delta the parent holds, and the application: a merge appends the newer
\* delta's callbacks to the older's, and an applied commit appends the
\* delta's callbacks to the committed list.
C17_FrameCallbacksKept ==
    /\ [](\A s \in DOMAIN surf : StrictlyIncreasing(FrameChain(s)))
    /\ [][\A s \in DOMAIN surf :
            /\ FrameChain(s)' =
                 IF RequestStep("frame", s)
                 THEN Append(FrameChain(s), last'.arg[1]) ELSE FrameChain(s)
            /\ MergeStep(s) =>
                 MergedDelta(s).frame_request =
                   OlderDelta(s).frame_request \o surf[s].pending.frame_request
            /\ (ApplyStep(s) /\ last'.res = "Ok") =>
                 /\ surf'[s].frame_requests =
                      surf[s].frame_requests \o surf[s].pending.frame_request
                 /\ \A c \in DOMAIN surf[s].pending.subsurfaces :
                      surf'[c].frame_requests =
                        surf[c].frame_requests
                          \o surf[s].pending.subsurfaces[c].frame_request
         ]_vars

\* the callbacks of two merged deltas of the subsurface have been
\* committed by the parent's commit
C17_Witness ==
    /\ last.op = "commit"
    /\ last.s = 1
    /\ last.outcome = "applied"
    /\ ncommits = 3
    /\ surf[2].frame_requests = <<1, 2>>

\* C18 as stated: the merged presentation-feedback list is the older
\* delta's followed by the newer's and none is discarded.
C18_FeedbackConcatenated ==
    [][\A c \in DOMAIN surf : MergeStep(c) =>
         /\ MergedDelta(c).presentation_feedback =
              OlderDelta(c).presentation_feedback
                \o surf[c].pending.presentation_feedback
         /\ last'.fb = <<>>
      ]_vars

\* C18: a merge keeps only the newer delta's presentation feedbacks, in
\* their order; every feedback of the older delta is sent `discarded` and
\* removed.
C18_OlderFeedbackDiscarded ==
    [][\A c \in DOMAIN surf : MergeStep(c) =>
         /\ MergedDelta(c).presentation_feedback =
              surf[c].pending.presentation_feedback
         /\ last'.fb = OlderDelta(c).presentation_feedback
         /\ surf'[c].pending.presentation_feedback = <<>>
      ]_vars

\* a merge has discarded the feedback of the older delta and kept the
\* newer delta's
C18_Witness ==
    /\ last.op = "merge"
    /\ last.s = 2
    /\ last.outcome = "buffered"
    /\ last.fb # <<>>
    /\ HasOlderDelta(2)
    /\ OlderDelta(2).presentation_feedback # <<>>

\* C19: for each of opaque region, input region, source rectangle,
\* destination size, scale, transform, tearing, content type and xwayland
\* serial, the merged delta has the newer delta's value if the newer delta
\* sets the field and the older delta's value (or unset) otherwise.
C19_LastWriteWins ==
    [][\A c \in DOMAIN surf : MergeStep(c) =>
         \A f \in OptFields :
           /\ surf[c].pending[f].set => MergedDelta(c)[f] = surf[c].pending[f]
           /\ ~surf[c].pending[f].set => MergedDelta(c)[f] = OlderDelta(c)[f]
      ]_vars

\* a merge in which the older delta set the scale and the newer delta did
\* not, while the newer delta set transform and tearing
C19_Witness ==
    /\ last.op = "merge"
    /\ last.s = 2
    /\ last.outcome = "buffered"
    /\ OlderDelta(2).scale = Some_(1)
    /\ OlderDelta(2).transform = Some_("Rotate180")
    /\ OlderDelta(2).tearing = Some_(FALSE)

\* a merge in which the newer delta set no field: the older delta's values
\* are kept
C19_WitnessOlderKept ==
    /\ last.op = "merge"
    /\ last.s = 2
    /\ last.outcome = "buffered"
    /\ OlderDelta(2).scale = Some_(1)
    /\ OlderDelta(2).transform = Some_("Rotate90")

\* A delta that only records the offset o.
OffsetDelta(o) == [DefaultPendingState EXCEPT !.offset = o]

\* C20: the merged offset is the component-wise sum of the two deltas'
\* offsets, and merging a further delta gives the same offset whether it is
\* merged after the two or the newer is merged with it first.
C20_OffsetsAdd ==
    /\ [](\A c \in DOMAIN surf : (IsSyncSubsurface(c) /\ HasOlderDelta(c)) =>
            \A o \in OffsetArgs :
              LET a == OlderDelta(c)
                  b == surf[c].pending
                  ab == merge(a, b, destroyed).state
                  bc == merge(b, OffsetDelta(o), destroyed).state
              IN /\ merge(ab, OffsetDelta(o), destroyed).state.offset
                      = merge(a, bc, destroyed).state.offset
                 /\ merge(ab, OffsetDelta(o), destroyed).state.offset
                      = <<a.offset[1] + b.offset[1] + o[1],
                          a.offset[2] + b.offset[2] + o[2]>>)
    /\ [][\A c \in DOMAIN surf : MergeStep(c) =>
            /\ MergedDelta(c).offset[1] =
                 OlderDelta(c).offset[1] + surf[c].pending.offset[1]
            /\ MergedDelta(c).offset[2] =
                 OlderDelta(c).offset[2] + surf[c].pending.offset[2]
            /\ surf'[c].pending.offset = <<0, 0>>
         ]_vars

\* three deltas with the offsets (1,1), (3,4) and (1,1) have been merged
C20_Witness ==
    /\ last.op = "merge"
    /\ last.s = 2
    /\ ncommits = 2
    /\ OlderDelta(2).offset = <<5, 6>>

\* A direct child delta of the pending state of s whose apply reports an
\* error, its own nested deltas included.
ChildApplyFails(s) ==
    \E c \in DOMAIN surf[s].pending.subsurfaces :
        apply_state(surf, sub, c, surf[s].pending.subsurfaces[c]).res # "Ok"

\* C21: apply_state applies every nested child delta, recursively, before
\* the surface's own delta: in the record of an apply every surface comes
\* after all of its descendants and the committing surface comes last; and
\* when the apply of a child delta fails, the apply fails with it, the
\* surface's own delta is not applied and none of its committed fields
\* changes.
C21_ChildrenAppliedFirst ==
    [][\A s \in DOMAIN surf : ApplyStep(s) =>
         /\ \A i, j \in 1..Len(last'.applied) :
               IsAncestor(last'.applied[j].surface, last'.applied[i].surface)
                 => i < j
         /\ AppliedIn(last', s) =>
               last'.applied[Len(last'.applied)].surface = s
         /\ last'.res = "Ok" =>
               /\ AppliedIn(last', s)
               /\ \A e \in Nested(surf[s].pending) : AppliedIn(last', e[1])
         /\ ChildApplyFails(s) =>
               /\ last'.res # "Ok"
               /\ ~AppliedIn(last', s)
               /\ Committed(surf'[s]) = Committed(surf[s])]_vars

\* Surface 1 set its buffer scale and committed, the delta of surface 3
\* nested two levels below failed with a fractional viewport size, and the
\* committed scale of surface 1 is still 1.
C21_Witness ==
    /\ last.op = "commit" /\ last.s = 1
    /\ last.res = "NonIntegerViewportSize"
    /\ surf[1].pending.scale.set
    /\ surf[1].buffer_scale = 1
    /\ ~AppliedIn(last, 1)

\* Surface 1 committed and the record of the apply lists 3, 2, 1.
C21_WitnessOrder ==
    /\ last.op = "commit" /\ last.s = 1 /\ last.res = "Ok"
    /\ Len(last.applied) = 3
    /\ last.applied[1].surface = 3
    /\ last.applied[3].surface = 1

\* A step in which surface s applies a delta, at its commit or when its
\* commit timeline resumes the held commit; and that delta.
AppliesDelta(s) ==
    /\ RequestStep("commit", s) \/ RequestStep("resume", s)
    /\ last'.outcome \in {"applied", "failed"}
AppliedDelta(s) ==
    IF last'.op = "resume" THEN tl[s].held ELSE surf[s].pending

\* C22: when apply_state reaches a surface whose destroyed flag is set,
\* none of that surface's committed fields changes and its own delta is not
\* recorded as applied, the apply succeeds, and the deltas nested below the
\* destroyed surface's delta are applied all the same: they stay in effect.
C22_DestroyedSurfaceNotApplied ==
    [][\A s \in DOMAIN surf : AppliesDelta(s) =>
         \A e \in Nested(AppliedDelta(s)) : surf[e[1]].destroyed =>
           /\ last'.res = "Ok"
           /\ Committed(surf'[e[1]]) = Committed(surf[e[1]])
           /\ ~AppliedIn(last', e[1])
           /\ AppliedIn(last', s)
           /\ \A g \in DOMAIN e[2].subsurfaces :
                 /\ AppliedIn(last', g)
                 /\ e[2].subsurfaces[g].scale.set =>
                       surf'[g].buffer_scale = e[2].subsurfaces[g].scale.val]_vars

\* The held commit of surface 1 was applied after surface 2 was destroyed:
\* surface 2, whose delta set the scale 2, still has the scale 1, and
\* surface 3 below it has the scale 2 of its delta.
C22_Witness ==
    /\ last.op = "resume" /\ last.s = 1 /\ last.res = "Ok"
    /\ surf[2].destroyed
    /\ surf[2].buffer_scale = 1
    /\ surf[3].buffer_scale = 2
    /\ AppliedIn(last, 3) /\ AppliedIn(last, 1) /\ ~AppliedIn(last, 2)

\* The commit request on c passes the explicit-sync validation and the role
\* extension of c answers AbortCommit.
AbortedCommit(c) ==
    /\ CommitStep(c)
    /\ last'.verify = "Ok"
    /\ commit_requested(surf, sub, c, surf[c].pending, destroyed).action
         = "AbortCommit"

\* C23: when the role extension aborts a commit, the commit is not handed
\* to the commit timeline (no timeline changes, also when the delta carries
\* an acquire point), nothing is applied and no committed field of any
\* surface changes; the delta is kept, buffered for the parent with the
\* buffer and the points it set; and the next commit of the parent that is
\* applied commits the buffer of the delta buffered for its child.
C23_AbortedCommitKept ==
    [][/\ \A c \in DOMAIN surf : AbortedCommit(c) =>
            /\ last'.res = "Ok"
            /\ tl' = tl
            /\ last'.applied = <<>>
            /\ last'.drops = <<>>
            /\ CommittedAll(surf') = CommittedAll(surf)
            /\ c \in DOMAIN surf'[Parent(c)].pending.subsurfaces
            /\ LET d == surf[c].pending
                   kept == surf'[Parent(c)].pending.subsurfaces[c]
               IN /\ d.buffer.set => kept.buffer = d.buffer
                  /\ d.acquire_point # 0 =>
                        kept.acquire_point = d.acquire_point
                  /\ d.release_point # 0 =>
                        kept.release_point = d.release_point
       /\ \A s \in DOMAIN surf : (ApplyStep(s) /\ last'.res = "Ok") =>
            \A c \in DOMAIN surf[s].pending.subsurfaces :
              LET d == surf[s].pending.subsurfaces[c]
              IN (d.buffer.set /\ ~surf[c].destroyed) =>
                   /\ AppliedIn(last', c)
                   /\ surf'[c].buffer.buffer = d.buffer.val]_vars

\* The commit of the synchronized subsurface 2, whose delta attaches a
\* buffer behind an acquire point, was aborted: the timeline of 2 is idle,
\* no buffer is committed and the delta is buffered in surface 1.
C23_Witness ==
    /\ last.op = "commit" /\ last.s = 2 /\ last.outcome = "buffered"
    /\ tl[2].state = "Idle"
    /\ surf[2].buffer.buffer = 0
    /\ 2 \in DOMAIN surf[1].pending.subsurfaces
    /\ surf[1].pending.subsurfaces[2].buffer.set
    /\ surf[1].pending.subsurfaces[2].acquire_point # 0

\* The commit of surface 1 applied the buffer of the aborted commit of 2.
C23_WitnessApplied ==
    /\ last.op = "commit" /\ last.s = 1 /\ last.res = "Ok"
    /\ AppliedIn(last, 2)
    /\ surf[2].buffer.buffer # 0
    /\ sub[2].sync

\* Every scale in the delta p and in the deltas nested in it is at least 1.
RECURSIVE ScalesAccepted(_)
ScalesAccepted(p) ==
    /\ p.scale.set => p.scale.val >= 1
    /\ \A c \in DOMAIN p.subsurfaces : ScalesAccepted(p.subsurfaces[c])

\* C24: the committed buffer scale of every surface is at least 1, and so
\* is every scale a pending delta holds, nested deltas included;
\* set_buffer_scale with a value below 1 fails with NonPositiveBufferScale
\* and changes nothing, with a value of at least 1 it succeeds and sets the
\* pending scale to that value; and the committed scale changes only when
\* a delta is applied, to the scale that delta holds.
C24_ScalePositive ==
    /\ [](\A s \in DOMAIN surf :
            /\ surf[s].buffer_scale >= 1
            /\ ScalesAccepted(surf[s].pending)
            /\ ScalesAccepted(tl[s].held))
    /\ [][\A s \in DOMAIN surf :
            /\ RequestStep("set_buffer_scale", s) =>
                 IF last'.arg[1] < 1
                 THEN /\ last'.res = "NonPositiveBufferScale"
                      /\ err' = "NonPositiveBufferScale"
                      /\ surf' = surf
                 ELSE /\ last'.res = "Ok"
                      /\ surf'[s].pending.scale = Some_(last'.arg[1])
                      /\ Committed(surf'[s]) = Committed(surf[s])
            /\ surf'[s].buffer_scale # surf[s].buffer_scale =>
                 /\ AppliedIn(last', s)
                 /\ \/ /\ last'.s = s
                       /\ surf[s].pending.scale = Some_(surf'[s].buffer_scale)
                    \/ /\ s \in DOMAIN surf[last'.s].pending.subsurfaces
                       /\ surf[last'.s].pending.subsurfaces[s].scale
                            = Some_(surf'[s].buffer_scale)]_vars

\* set_buffer_scale(0) was refused on surface 2 whose pending scale is 2,
\* set by an earlier request.
C24_Witness ==
    /\ last.op = "set_buffer_scale" /\ last.s = 2
    /\ last.arg = <<0>>
    /\ last.res = "NonPositiveBufferScale"
    /\ surf[2].pending.scale = Some_(2)

\* Two commits of surface 2, the later with the scale 3, were merged and
\* applied by the commit of surface 1, which set its own scale to 2.
C24_WitnessApplied ==
    /\ last.op = "commit" /\ last.s = 1 /\ last.res = "Ok"
    /\ surf[2].buffer_scale = 3
    /\ surf[1].buffer_scale = 2
    /\ Len(applied[2]) >= 2

\* C25: every dropped buffer with an explicit release point has its point
\* signalled: by the import of its accumulated fences, or directly when it
\* has no fences or when the import fails; no drop leaves the point
\* neither imported into nor signalled.
C25_ReleasePointNeverStuck ==
    \A i \in 1..Len(last.drops) :
      LET d == last.drops[i].out
      IN d.release # 0 =>
           /\ d.point_imported \/ d.point_signalled
           /\ ~d.files => d.point_signalled
           /\ (d.files /\ ~d.point_imported) => d.point_signalled

\* What does hold of the drop: with the render context present the point
\* is imported into or signalled, and without it neither happens.
C25_SignalledIffContext ==
    \A i \in 1..Len(last.drops) :
      LET d == last.drops[i].out
      IN d.release # 0 =>
           /\ (d.point_imported \/ d.point_signalled) <=> d.ctx
           /\ d.ctx => (d.point_signalled <=> ~d.point_imported)
           /\ d.point_imported => d.files

\* The commit request on the synchronized subsurface c merges a delta that
\* sets the buffer, to a buffer or to none, into an older delta that
\* attaches a buffer.
SupersedesBuffer(c) ==
    /\ IsSyncSubsurface(c)
    /\ HasOlderDelta(c)
    /\ OlderDelta(c).buffer.set /\ OlderDelta(c).buffer.val # 0
    /\ surf[c].pending.buffer.set

\* C26: the legacy release event is sent for a detached buffer iff the
\* buffer has no explicit release point and the client has not destroyed
\* it: for every committed buffer that a step drops, and for the buffer of
\* an older delta that a merge supersedes; a merge that supersedes no
\* buffer sends no release.
C26_LegacyReleaseIff ==
    [][/\ \A i \in 1..Len(last'.drops) :
            LET d == last'.drops[i]
                sb == surf[d.surface].buffer
            IN /\ d.out.buffer = sb.buffer
               /\ d.out.released <=>
                    (sb.release = 0 /\ sb.buffer \notin destroyed)
       /\ \A c \in DOMAIN sub :
            (CommitStep(c) /\ last'.verify = "Ok") =>
              IF SupersedesBuffer(c)
              THEN LET old == OlderDelta(c)
                       n == last'.notes[1]
                   IN /\ n.released \in {0, old.buffer.val}
                      /\ (n.released # 0) <=>
                           (old.release_point = 0
                              /\ old.buffer.val \notin destroyed)
              ELSE \A j \in 1..Len(last'.notes) : last'.notes[j].released = 0
      ]_vars

\* A merge superseded a buffer the client had destroyed, without release
\* point: no release event was sent.
C26_Witness ==
    /\ last.op = "commit" /\ last.s = 2
    /\ Len(last.notes) = 1
    /\ last.notes[1].discarded # 0
    /\ last.notes[1].discarded \in destroyed
    /\ ~last.notes[1].had_point
    /\ last.notes[1].released = 0

\* A committed buffer with a release point was dropped without a release
\* event, and a committed buffer without one was dropped with it.
C26_WitnessDrop ==
    /\ Len(last.drops) = 1
    /\ last.drops[1].out.release # 0
    /\ ~last.drops[1].out.released
    /\ cnt.legacy >= 1

\* C27: when a delta is applied, each of the committed buffer, scale,
\* transform, source rectangle, destination size, input region, opaque
\* region, tearing flag, content type and xwayland serial that the delta
\* does not set keeps its value, and each that the delta sets, be it to
\* none, becomes the delta's value.
C27_FieldsApplied ==
    [][\A s \in DOMAIN surf : (ApplyStep(s) /\ last'.res = "Ok") =>
         LET p == surf[s].pending
             old == surf[s]
             new == surf'[s]
         IN /\ IF p.buffer.set THEN new.buffer.buffer = p.buffer.val
                               ELSE new.buffer = old.buffer
            /\ new.buffer_scale =
                  IF p.scale.set THEN p.scale.val ELSE old.buffer_scale
            /\ new.buffer_transform =
                  IF p.transform.set THEN p.transform.val
                  ELSE old.buffer_transform
            /\ new.src_rect =
                  IF p.src_rect.set THEN p.src_rect.val ELSE old.src_rect
            /\ new.dst_size =
                  IF p.dst_size.set THEN p.dst_size.val ELSE old.dst_size
            /\ new.input_region =
                  IF p.input_region.set THEN p.input_region.val
                  ELSE old.input_region
            /\ new.opaque_region =
                  IF p.opaque_region.set THEN p.opaque_region.val
                  ELSE old.opaque_region
            /\ new.tearing =
                  IF p.tearing.set THEN p.tearing.val ELSE old.tearing
            /\ new.content_type =
                  IF p.content_type.set THEN p.content_type.val
                  ELSE old.content_type
            /\ new.xwayland_serial =
                  IF p.xwayland_serial.set THEN Some_(p.xwayland_serial.val)
                  ELSE old.xwayland_serial]_vars

\* The second commit was applied: it reset the input region, that the first
\* commit had set, to none, set the scale to 2 and left the opaque region,
\* the transform and the buffer of the first commit as they were.
C27_Witness ==
    /\ last.op = "commit" /\ last.res = "Ok" /\ ncommits = 2
    /\ surf[1].input_region = 0
    /\ surf[1].buffer_scale = 2
    /\ surf[1].opaque_region = 1
    /\ surf[1].buffer_transform = "Rotate90"
    /\ surf[1].buffer.buffer = 1
    /\ surf[1].xwayland_serial = Some_(1)

\* The bounding rectangle of the non-empty rectangles among the own
\* rectangle of surface s at the origin and the extents of its children,
\* each moved to the child's position; the own rectangle if all are empty.
BoundingExtents(S, s) ==
    LET own == RectAtPoint(S[s].buffer_abs_pos, 0, 0)
        cs == IF S[s].children.set THEN S[s].children.val ELSE {}
        rs == {r \in {own} \cup
                       {RectMove(S[c].extents, sub[c].x, sub[c].y) : c \in cs} :
                 ~RectIsEmpty(r)}
    IN IF rs = {} THEN own
       ELSE Rect(CHOOSE v \in {r.x1 : r \in rs} : \A r \in rs : v <= r.x1,
                 CHOOSE v \in {r.y1 : r \in rs} : \A r \in rs : v <= r.y1,
                 CHOOSE v \in {r.x2 : r \in rs} : \A r \in rs : v >= r.x2,
                 CHOOSE v \in {r.y2 : r \in rs} : \A r \in rs : v >= r.y2)

\* C28: when an apply has run calculate_extents on a surface, the extents
\* of the surface are the bounding rectangle of its own rectangle at the
\* origin and of the extents of its children moved to their positions,
\* empty rectangles left out; need_extents_update is false; and the
\* extents_changed hook of the role extension was called iff the extents
\* differ from those before.
C28_ExtentsAreUnion ==
    [][\A i \in 1..Len(last'.applied) :
         LET e == last'.applied[i]
             s == e.surface
         IN e.extents[1] =>
              /\ surf'[s].extents = BoundingExtents(surf', s)
              /\ ~surf'[s].need_extents_update
              /\ e.extents[2] <=> (surf'[s].extents # surf[s].extents)]_vars

\* Surface 1 detached its buffer: its extents are those of its child 2 at
\* the position (3,1); the empty own rectangle at the origin and the empty
\* child 3 contribute nothing.
C28_Witness ==
    /\ last.op = "commit" /\ last.s = 1 /\ last.res = "Ok"
    /\ last.applied[Len(last.applied)].extents = <<TRUE, TRUE>>
    /\ surf[1].buffer.buffer = 0
    /\ ~RectIsEmpty(surf[2].extents)
    /\ sub[2].x = 3
    /\ surf[1].extents.x1 > 0

\* calculate_extents ran and found the extents as they were.
C28_WitnessUnchanged ==
    /\ last.op = "commit" /\ last.res = "Ok"
    /\ \E i \in 1..Len(last.applied) : last.applied[i].extents = <<TRUE, FALSE>>

\* C29: an attach with a non-zero x or y on a surface of version 5 or
\* later fails with OffsetInAttach and leaves the pending state, buffer and
\* offset included, and the committed state as they were; with x = y = 0 it
\* sets the pending buffer and leaves the pending offset; on an older
\* surface an attach sets the pending buffer and makes (x, y) the pending
\* offset.
C29_OffsetInAttach ==
    [][\A s \in DOMAIN surf : RequestStep("attach", s) =>
         IF surf[s].version >= 5
         THEN IF last'.arg # <<0, 0>>
              THEN /\ last'.res = "OffsetInAttach"
                   /\ err' = "OffsetInAttach"
                   /\ surf' = surf
              ELSE /\ last'.res = "Ok"
                   /\ surf'[s].pending.buffer.set
                   /\ surf'[s].pending.offset = surf[s].pending.offset
         ELSE /\ last'.res = "Ok"
              /\ surf'[s].pending.buffer.set
              /\ surf'[s].pending.offset = last'.arg]_vars

\* On a surface of version 5 whose pending state attaches buffer 1 with
\* the offset (3,4), an attach with the offset (1,1) was refused: buffer and
\* offset are still pending.
C29_Witness ==
    /\ last.op = "attach" /\ last.res = "OffsetInAttach"
    /\ last.arg = <<1, 1>>
    /\ surf[1].version = 5
    /\ surf[1].pending.buffer = Some_(1)
    /\ surf[1].pending.offset = <<3, 4>>

\* On a surface of version 4 an attach replaced the pending offset (3,4)
\* by its own (1,1).
C29_WitnessOld ==
    /\ last.op = "attach" /\ last.res = "Ok"
    /\ surf[1].version = 4
    /\ last.replaced = <<3, 4>>
    /\ surf[1].pending.offset = <<1, 1>>

\* The buffer position of surface s.
BufPos(sf) == <<sf.buf_x, sf.buf_y>>

\* C30: the buffer position (buf_x, buf_y) of a surface changes only in a
\* step that applies a delta of the surface which sets the buffer; an
\* applied delta that attaches a non-null buffer adds its offset to the
\* position, one that attaches the null buffer resets the position to
\* (0, 0), and one that does not set the buffer leaves the position as it
\* is; in each case the offset is taken out of the pending state.
C30_BufferPosition ==
    [][\A s \in DOMAIN surf :
         /\ BufPos(surf'[s]) # BufPos(surf[s]) =>
               /\ ApplyStep(s)
               /\ surf[s].pending.buffer.set
         /\ (ApplyStep(s) /\ last'.res = "Ok") =>
               LET p == surf[s].pending
               IN /\ surf'[s].pending.offset = <<0, 0>>
                  /\ BufPos(surf'[s]) =
                        IF ~p.buffer.set THEN BufPos(surf[s])
                        ELSE IF p.buffer.val # 0
                        THEN <<surf[s].buf_x + p.offset[1],
                               surf[s].buf_y + p.offset[2]>>
                        ELSE <<0, 0>>]_vars

\* A commit without attach consumed the offset (3,4): the buffer position
\* is still (1,1), where an earlier commit had put it.
C30_Witness ==
    /\ last.op = "commit" /\ last.res = "Ok" /\ last.outcome = "applied"
    /\ ncommits >= 2
    /\ BufPos(surf[1]) = <<1, 1>>
    /\ surf[1].buffer.buffer = 1
    /\ last.drops = <<>>
    /\ last.replaced = <<3, 4>>

\* A commit that attached the null buffer reset the position to (0,0).
C30_WitnessReset ==
    /\ last.op = "commit" /\ last.res = "Ok"
    /\ ncommits >= 2
    /\ surf[1].buffer.buffer = 0
    /\ BufPos(surf[1]) = <<0, 0>>
    /\ applied[1] # <<>>
\* ------------------------------------------------------------------ C31
\* The surfaces of the tree of s in paint order from the top: for every
\* surface the subsurfaces above it from the topmost to the lowest, each
\* with its own tree, then the surface, then the subsurfaces below it.
RECURSIVE PaintOrder(_, _, _)
RECURSIVE PaintOrderOf(_, _, _)
PaintOrderOf(S, ss, stack) ==
    IF stack = <<>> THEN <<>>
    ELSE PaintOrder(S, ss, Head(stack)) \o PaintOrderOf(S, ss, Tail(stack))
PaintOrder(S, ss, s) ==
    PaintOrderOf(S, ss, Stack(ss, s, "above")) \o <<s>>
        \o PaintOrderOf(S, ss, Stack(ss, s, "below"))

\* The point (x, y) of surface root in the coordinates of surface t of
\* its tree.
RECURSIVE LocalPoint(_, _, _, _, _)
LocalPoint(ss, root, t, x, y) ==
    IF t = root THEN <<x, y>>
    ELSE LET p == LocalPoint(ss, root, ss[t].parent, x, y)
         IN <<p[1] - ss[t].x, p[2] - ss[t].y>>

\* Some stack element between root and t has its pending flag set.
RECURSIVE ThroughPending(_, _, _)
ThroughPending(ss, root, t) ==
    t # root /\ (ss[t].pending \/ ThroughPending(ss, root, ss[t].parent))

\* The point lies in the position rectangle of every subsurface between
\* root and t.
RECURSIVE InsidePositions(_, _, _, _, _, _)
InsidePositions(S, ss, root, t, x, y) ==
    t = root
    \/ LET p == LocalPoint(ss, root, ss[t].parent, x, y)
       IN /\ RectContains(Position(S, ss, t), p[1], p[2])
          /\ InsidePositions(S, ss, root, ss[t].parent, x, y)

\* Surface t of the tree of root takes the input at the point (x, y).
TakesInput(S, ss, root, t, x, y) ==
    LET p == LocalPoint(ss, root, t, x, y)
    IN /\ ~ThroughPending(ss, root, t)
       /\ InsidePositions(S, ss, root, t, x, y)
       /\ accepts_input_at(S[t], p[1], p[2])

C31_WitnessNested ==
    /\ last.op = "find_surface_at"
    /\ last.found # <<>> /\ last.found[1] = 4
    /\ sub[4].x = 1
    /\ last.found[2] = last.arg[1] - 2

\* The parent accepts the input and a child below it does too: the parent
\* is returned.
C31_WitnessParentFirst ==
    /\ last.op = "find_surface_at"
    /\ last.found # <<>> /\ last.found[1] = 1
    /\ \E c \in {2, 3} :
         /\ sub[c].band = "below"
         /\ TakesInput(surf, sub, 1, c, last.arg[1], last.arg[2])

\* ------------------------------------------------------------------ C32
\* C32: every committed buffer has a sync mode that agrees with its release
\* mechanism: it carries an explicit release point exactly if its release
\* sync is Explicit, and its release sync is Explicit exactly if its
\* acquire sync is Unnecessary.
C32_SyncModeMatchesRelease ==
    \A s \in DOMAIN surf :
        surf[s].buffer.buffer # 0 =>
            /\ surf[s].buffer.release # 0
                 <=> surf[s].buffer.release_sync = "Explicit"
            /\ surf[s].buffer.release_sync = "Explicit"
                 <=> surf[s].buffer.sync = "Unnecessary"

\* ------------------------------------------------------------------ C33
\* The delta passes the validation of a commit with explicit sync as far
\* as its points go: the acquire and the release point are both set or
\* both unset, and they are set only if the delta attaches a buffer other
\* than the null buffer.
PointsValid(d) ==
    /\ d.acquire_point # 0 <=> d.release_point # 0
    /\ d.acquire_point # 0 => d.buffer.set /\ d.buffer.val # 0

\* C33: the delta that results from merging two deltas that each passed
\* verify_explicit_sync still has its acquire and release point both set
\* or both unset, and set only if it attaches a non-null buffer.
C33_MergedDeltaValid ==
    \A c \in DOMAIN sub :
        IsSyncSubsurface(c) /\ HasOlderDelta(c) => PointsValid(OlderDelta(c))

\* A delta that was not merged yet is valid: the violation comes from merge.
C33_UnmergedDeltaValid ==
    \A c \in DOMAIN sub :
        IsSyncSubsurface(c) /\ HasOlderDelta(c)
            /\ Len(OlderDelta(c).commits) = 1 => PointsValid(OlderDelta(c))

\* ------------------------------------------------------------------ C34
\* C34: as long as every commit has been applied successfully, whatever
\* the order in which the commits set and unset the source rectangle and
\* the destination size, a surface whose committed source rectangle is
\* set and whose committed destination size is unset has a source
\* rectangle of integer width and height.
C34_IntegerSourceWithoutDst ==
    \A s \in DOMAIN surf :
        err = "None" /\ surf[s].src_rect.set /\ ~surf[s].dst_size.set =>
            /\ surf[s].src_rect.val[3] % FixedOne = 0
            /\ surf[s].src_rect.val[4] % FixedOne = 0

\* The second commit has been applied and has left the surface with a
\* source rectangle and without a destination size.
C34_Witness ==
    /\ last.op = "commit" /\ last.res = "Ok" /\ last.outcome = "applied"
    /\ ncommits = 2
    /\ surf[1].src_rect.set
    /\ ~surf[1].dst_size.set

\* A fractional source rectangle is committed together with a destination
\* size.
C34_WitnessFractional ==
    /\ last.op = "commit" /\ last.res = "Ok"
    /\ NonIntegerSource(surf[1])
    /\ surf[1].dst_size.set
    /\ ncommits = 1

\* ------------------------------------------------------------------ C35
\* C35: as long as every commit has been applied successfully, a surface
\* without a committed buffer (never attached, or detached by a commit of
\* the null buffer) has the size (0, 0) in buffer_abs_pos, also when a
\* source rectangle or a destination size is set.
C35_NoBufferNoSize ==
    \A s \in DOMAIN surf :
        err = "None" /\ surf[s].buffer.buffer = 0 =>
            RectSize(surf[s].buffer_abs_pos) = <<0, 0>>

\* Without a viewport the surface without a buffer has no size.
C35_NoBufferNoViewportNoSize ==
    \A s \in DOMAIN surf :
        err = "None" /\ surf[s].buffer.buffer = 0
            /\ ~surf[s].src_rect.set /\ ~surf[s].dst_size.set =>
            RectSize(surf[s].buffer_abs_pos) = <<0, 0>>

\* ------------------------------------------------------------------ C36
\* C36: wl_surface.destroy on a surface whose role object still exists
\* fails with ReloObjectStillExists and leaves the destroyed flag false and
\* the committed buffer, the children, the frame requests and the serial
\* index as they were.  A successful destroy sets the destroyed flag,
\* drops the committed buffer, which releases it, clears the frame
\* requests and the children, and leaves no entry for the surface's
\* xwayland serial in the client's serial index.
C36_Destroy ==
    [][\A s \in DOMAIN surf : RequestStep("destroy", s) =>
         IF surf[s].ext # "None"
         THEN /\ last'.res = "ReloObjectStillExists"
              /\ err' = "ReloObjectStillExists"
              /\ ~surf'[s].destroyed
              /\ surf'[s].buffer = surf[s].buffer
              /\ surf'[s].children = surf[s].children
              /\ surf'[s].frame_requests = surf[s].frame_requests
              /\ last'.drops = <<>>
              /\ surfaces_by_xwayland_serial' = surfaces_by_xwayland_serial
         ELSE /\ last'.res = "Ok"
              /\ surf'[s].destroyed
              /\ surf'[s].buffer = NoSurfaceBuffer
              /\ surf[s].buffer.buffer # 0 =>
                   /\ Len(last'.drops) = 1
                   /\ last'.drops[1].surface = s
                   /\ last'.drops[1].out.buffer = surf[s].buffer.buffer
              /\ surf[s].buffer.buffer = 0 => last'.drops = <<>>
              /\ surf'[s].frame_requests = <<>>
              /\ ~surf'[s].children.set
              /\ surf[s].xwayland_serial.set =>
                   \A e \in surfaces_by_xwayland_serial' :
                       e[1] # surf[s].xwayland_serial.val
      ]_vars

\* A destroy has failed on the subsurface 2, which has a committed buffer
\* and frame requests.
C36_Witness ==
    /\ last.op = "destroy" /\ last.s = 2
    /\ last.res = "ReloObjectStillExists"
    /\ surf[2].buffer.buffer # 0
    /\ surf[2].frame_requests # <<>>
    /\ ~surf[2].destroyed

\* The surface 1 with a committed buffer, frame requests and an xwayland
\* serial in the index has been destroyed; the serial of surface 2 is
\* still in the index.
C36_WitnessDestroyed ==
    /\ last.op = "destroy" /\ last.s = 1 /\ last.res = "Ok"
    /\ surf[1].destroyed
    /\ surf[1].xwayland_serial.set
    /\ Len(last.drops) = 1
    /\ cnt.objects > 0
    /\ surfaces_by_xwayland_serial = {<<surf[2].xwayland_serial.val, 2>>}
    /\ surf[2].xwayland_serial.val # surf[1].xwayland_serial.val

\* ------------------------------------------------------------------ C37
\* The committed geometry of a surface: buffer position, size, scale,
\* transform, viewport, sample points, regions and extents.
Geometry(sf) ==
    [buf |-> <<sf.buf_x, sf.buf_y>>, buffer_abs_pos |-> sf.buffer_abs_pos,
     buffer_scale |-> sf.buffer_scale,
     buffer_transform |-> sf.buffer_transform,
     src_rect |-> sf.src_rect, dst_size |-> sf.dst_size,
     buffer_points |-> sf.buffer_points,
     buffer_points_norm |-> sf.buffer_points_norm,
     input_region |-> sf.input_region, opaque_region |-> sf.opaque_region,
     extents |-> sf.extents]

\* A commit on s is applied directly after an applied commit on s: the
\* delta it applies is the one the first commit has applied and left in
\* the pending state.
AppliesAgain(s) ==
    /\ last.op = "commit" /\ last.s = s /\ last.outcome = "applied"
    /\ RequestStep("commit", s)
    /\ ncommits' = ncommits + 1

\* C37: apply_state consumes what it applies.  A commit that follows an
\* applied commit on the same surface with no request in between applies
\* the same delta object a second time: it succeeds, changes no committed
\* geometry field (buffer position, size, scale, transform, viewport,
\* regions), does not replace or release the committed buffer and adds no
\* frame callback, and the delta is left as it was.
C37_ApplyConsumes ==
    [][\A s \in DOMAIN surf : AppliesAgain(s) =>
         /\ last'.res = "Ok" /\ last'.outcome = "applied"
         /\ Geometry(surf'[s]) = Geometry(surf[s])
         /\ surf'[s].buffer = surf[s].buffer
         /\ last'.drops = <<>>
         /\ surf'[s].frame_requests = surf[s].frame_requests
         /\ surf'[s].pending = surf[s].pending
      ]_vars

\* The first commit has applied a buffer with an offset, a frame callback
\* and the viewport, and a second commit has followed it.
C37_Witness ==
    /\ last.op = "commit" /\ last.outcome = "applied"
    /\ ncommits = 2
    /\ surf[1].buffer.buffer = 1
    /\ <<surf[1].buf_x, surf[1].buf_y>> = <<3, 4>>
    /\ surf[1].frame_requests = <<1>>
    /\ surf[1].dst_size.set
    /\ surf[1].src_rect.set
    /\ surf[1].buffer_scale = 1

\* ------------------------------------------------------------------ C38
\* A step that handled a PresentCompleteNotify or a PresentIdleNotify.
PresentStep(op) == last'.op = op /\ xorg' # xorg

\* C38: for every interleaving of present-complete and present-idle
\* events, an image is rendered into and presented only while its idle
\* flag is true.  handle_present_complete presents the next image, once,
\* if that image is idle, and otherwise presents nothing and sets the
\* image's render_on_idle; handle_present_idle marks the image of the
\* event's serial idle and presents, once, exactly if that image had
\* render_on_idle set, which it clears: the image presented is that
\* image.  A set render_on_idle belongs to the next image, which is busy.
C38_PresentOnlyIdle ==
    /\ [](\A i \in 1..Len(xorg.output.images) :
            xorg.output.images[i].render_on_idle =>
                /\ ~xorg.output.images[i].idle
                /\ (xorg.output.next_image % Len(xorg.output.images)) + 1 = i)
    /\ [](\A k \in 1..Len(last.presents) : last.presents[k].idle)
    /\ [][PresentStep("present_complete") =>
            LET o == xorg.output
                i == (o.next_image % Len(o.images)) + 1
            IN IF o.images[i].idle
               THEN /\ Len(last'.presents) = 1
                    /\ last'.presents[1].image = i
                    /\ xorg'.output.images[i].render_on_idle
                         = o.images[i].render_on_idle
               ELSE /\ last'.presents = <<>>
                    /\ xorg'.output.images[i].render_on_idle
                    /\ xorg'.output.next_image = o.next_image]_vars
    /\ [][PresentStep("present_idle") =>
            LET o == xorg.output
                hit == {i \in 1..Len(o.images) :
                          o.images[i].last_serial = last'.arg[1]}
                deferred == {i \in hit : o.images[i].render_on_idle}
            IN /\ \A i \in 1..Len(o.images) :
                    xorg'.output.images[i].render_on_idle
                      = (i \notin hit /\ o.images[i].render_on_idle)
               /\ \A i \in hit \ deferred : xorg'.output.images[i].idle
               /\ Len(last'.presents) = Cardinality(deferred)
               /\ \A k \in 1..Len(last'.presents) :
                    last'.presents[k].image \in deferred]_vars

\* A present that handle_present_complete has put off has been made by
\* handle_present_idle.
C38_Witness ==
    /\ last.op = "present_idle"
    /\ Len(last.presents) = 1
    /\ last.presents[1].ok
    /\ last.presents[1].serial >= 2

\* handle_present_complete has found the next image busy.
C38_WitnessDeferred ==
    /\ last.op = "present_complete"
    /\ last.presents = <<>>
    /\ \E i \in {1, 2} : xorg.output.images[i].render_on_idle

\* ------------------------------------------------------------------ C39
\* The anchor point of the positioner on its anchor rectangle.
AnchorPoint(p) ==
    <<IF "LEFT" \in p.anchor THEN p.ar.x1
      ELSE IF "RIGHT" \in p.anchor THEN p.ar.x2
      ELSE p.ar.x1 + Half(RectWidth(p.ar)),
      IF "TOP" \in p.anchor THEN p.ar.y1
      ELSE IF "BOTTOM" \in p.anchor THEN p.ar.y2
      ELSE p.ar.y1 + Half(RectHeight(p.ar))>>
\* What the gravity takes off the origin: the full size for LEFT and TOP,
\* nothing for RIGHT and BOTTOM, half the size otherwise.
GravityShift(p) ==
    <<IF "LEFT" \in p.gravity THEN p.size_width
      ELSE IF "RIGHT" \in p.gravity THEN 0
      ELSE Half(p.size_width),
      IF "TOP" \in p.gravity THEN p.size_height
      ELSE IF "BOTTOM" \in p.gravity THEN 0
      ELSE Half(p.size_height)>>
\* The rectangle of the positioner's size whose origin is the anchor point
\* shifted by (dx, dy) and moved by the gravity.
Positioned(p, dx, dy) ==
    LET x == AnchorPoint(p)[1] + dx - GravityShift(p)[1]
        y == AnchorPoint(p)[2] + dy - GravityShift(p)[2]
    IN Rect(x, y, x + p.size_width, y + p.size_height)

\* C39: get_position returns the rectangle of size (size_width,
\* size_height) whose origin is the anchor point on the anchor rectangle,
\* shifted by the offset of set_offset, off_x on the x axis and off_y on
\* the y axis, and moved by the gravity, for all anchors, gravities,
\* offsets and sizes.
C39_GetPosition ==
    last.op = "get_position" =>
        last.rect = Positioned(position, position.off_x, position.off_y)

\* What get_position returns: both axes are shifted by off_x.
C39_GetPositionOffX ==
    last.op = "get_position" =>
        last.rect = Positioned(position, position.off_x, position.off_x)

====
